---- MODULE Spec2Model ----
(***************************************************************************)
(* xnote: offline-first notes client synchronised to a Drive appDataFolder. *)
(* The model covers the sync engine (syncNow, pushOutbox, pushUpsert,       *)
(* pushDelete, ensureCursor, pullChanges, mergeLastWriteWins), the local    *)
(* IndexedDB stores it works on (notes, outbox, driveMap, syncMeta), the    *)
(* editing handlers that fill the outbox (onNew, onSave, onDelete), and the *)
(* Drive file API as the engine sees it (files, tags, change feed).         *)
(*                                                                         *)
(* Every await of the engine and of the handlers is one step, so a crash    *)
(* (the page is closed or reloaded) can fall between any two of them.       *)
(*                                                                         *)
(* Values: ids, texts and timestamps are integers; 0 stands for JavaScript  *)
(* null / undefined / '' (all falsy); a record that does not exist is the   *)
(* function with the empty domain.                                          *)
(***************************************************************************)
EXTENDS Integers, Sequences, FiniteSets, TLC

\* ------------------------------------------------------------------ bounds
MaxNotes == 2      \* note ids ever created (createId)
SerialNotes == 1   \* ... of them in the specification with every handler
MaxOps == 3        \* outbox operations ever enqueued (createId)
MaxFiles == 2      \* Drive file ids ever handed out
MaxSeq == 3        \* changes the Drive change feed ever records
MaxTs == 2         \* largest clock reading (Date.now())
MaxText == 1       \* distinct non-empty editor texts
PageSize == 1      \* entries per page of the Drive change feed

NoteIds == 1..MaxNotes
OpIds == 1..MaxOps
FileIds == 1..MaxFiles
Times == 1..MaxTs
Texts == 0..MaxText
Flows == {1, 2}    \* sync flows (invocations of onSync that can be in flight)

Null == 0
None == [x \in {} |-> 0]

\* --------------------------------------------------- IndexedDB primitives
\* store.put(record) on a store keyed by k
Put(store, k, v) == [x \in (DOMAIN store) \cup {k} |-> IF x = k THEN v ELSE store[x]]
\* store.delete(k)
Del(store, k) == [x \in (DOMAIN store) \ {k} |-> store[x]]
\* store.get(k): the record, or null
Get(store, k) == IF k \in DOMAIN store THEN store[k] ELSE None

\* object spread { ...a, ...b }
Spread(a, b) == [f \in (DOMAIN a) \cup (DOMAIN b) |-> IF f \in DOMAIN b THEN b[f] ELSE a[f]]
\* x.field, undefined (0) when the field is absent
Field(x, f) == IF f \in DOMAIN x THEN x[f] ELSE Null

\* props.kind, the string 'undefined' when absent
KindOf(props) == IF "kind" \in DOMAIN props THEN props.kind ELSE "undefined"

\* ------------------------------------------------------------- the merge
\* Number(note.updatedAtMs || 0)
TsOf(note) == Field(note, "updatedAtMs")

mergeLastWriteWins_tieRemote(local, remote) ==
    IF local = None THEN [winner |-> "remote", merged |-> remote]
    ELSE IF TsOf(remote) >= TsOf(local)
         THEN [winner |-> "remote", merged |-> Spread(local, remote)]
         ELSE [winner |-> "local", merged |-> local]

mergeLastWriteWins_always(local, remote) ==
    IF local = None THEN [winner |-> "remote", merged |-> remote]
    ELSE [winner |-> "remote", merged |-> Spread(local, remote)]

mergeLastWriteWins_remoteOnly(local, remote) ==
    IF local = None THEN [winner |-> "remote", merged |-> remote]
    ELSE IF TsOf(remote) > TsOf(local)
         THEN [winner |-> "remote", merged |-> remote]
         ELSE [winner |-> "local", merged |-> local]

mergeLastWriteWins_overlayLocal(local, remote) ==
    IF local = None THEN [winner |-> "remote", merged |-> remote]
    ELSE IF TsOf(remote) > TsOf(local)
         THEN [winner |-> "remote", merged |-> Spread(remote, local)]
         ELSE [winner |-> "local", merged |-> local]

\* !local: remote wins; r > l: remote wins, { ...local, ...remote }; else local
mergeLastWriteWins(local, remote) ==
    IF local = None THEN [winner |-> "remote", merged |-> remote]
    ELSE IF TsOf(remote) > TsOf(local)
         THEN [winner |-> "remote", merged |-> Spread(local, remote)]
         ELSE [winner |-> "local", merged |-> local]

\* ------------------------------------------------------------ the outbox
\* index 'queuedAtMs' order: by key, then by primary key (opId)
OpBefore(a, b) ==
    \/ a.queuedAtMs < b.queuedAtMs
    \/ a.queuedAtMs = b.queuedAtMs /\ a.opId <= b.opId

RECURSIVE SortOps(_)
SortOps(S) ==
    IF S = {} THEN << >>
    ELSE LET first == CHOOSE o \in S : \A q \in S : OpBefore(o, q)
         IN  << first >> \o SortOps(S \ {first})

RECURSIVE listOps_byId(_)
listOps_byId(ob) ==
    IF DOMAIN ob = {} THEN << >>
    ELSE LET first == CHOOSE id \in DOMAIN ob : \A q \in DOMAIN ob : id <= q
         IN  << ob[first] >> \o listOps_byId(Del(ob, first))

\* idx.getAll(): every queued operation, in index order
listOps(ob) == SortOps({ob[id] : id \in DOMAIN ob})

deleteOp_noop(ob, opId) == ob

deleteOp_clear(ob, opId) == None

\* store.delete(opId)
deleteOp(ob, opId) == Del(ob, opId)

\* ------------------------------------------------------------------ JSON
\* JSON.stringify(value): the text of a file body
JSONstringify(value) == [kind |-> "json", value |-> value]
\* JSON.parse(raw): the value, or a SyntaxError for a text that is no JSON.
\* The JSON text null parses to null, which is None here.
JSONparse(raw) ==
    IF raw.kind = "json" THEN [ok |-> TRUE, value |-> raw.value]
    ELSE [ok |-> FALSE, value |-> None]

\* ------------------------------------------------------------- Drive side
\* A drive is [files, changeSeq, seq]: the files that exist, for every file id
\* the number of its latest change (0: id never handed out), and the number
\* of the latest change recorded.  The change feed lists each changed file
\* once, at its latest change.
EmptyDrive == [files |-> None, changeSeq |-> [f \in FileIds |-> 0], seq |-> 0]

\* md5Checksum of an uploaded body
Md5(body) == << "md5", body >>

\* appProperties the engine writes on every file it uploads
NoteProps(noteId) == [noteId |-> noteId, kind |-> "note"]

Allocated(d) == {f \in FileIds : d.changeSeq[f] > 0}
CanCreate(d) == Allocated(d) # FileIds /\ d.seq < MaxSeq
CanChange(d) == d.seq < MaxSeq
NewFileId_reuse(d) == CHOOSE f \in FileIds \ DOMAIN d.files : \A g \in FileIds \ DOMAIN d.files : f <= g

NewFileId(d) == CHOOSE f \in FileIds \ Allocated(d) : \A g \in FileIds \ Allocated(d) : f <= g

Touch(d, f) == [d EXCEPT !.seq = d.seq + 1, !.changeSeq[f] = d.seq + 1]

\* files.create (multipart): a new file with a new id
createJsonFileMultipart(d, props, json) ==
    LET f == NewFileId(d)
    IN  [Touch(d, f) EXCEPT !.files = Put(d.files, f, [appProperties |-> props, body |-> JSONstringify(json)])]

\* files.update (multipart PATCH) of an existing file: content and appProperties
updateJsonFileMultipart(d, f, props, json) ==
    [Touch(d, f) EXCEPT !.files = Put(d.files, f, [appProperties |-> props, body |-> JSONstringify(json)])]

\* files.delete of an existing file
deleteFile(d, f) == [Touch(d, f) EXCEPT !.files = Del(d.files, f)]

\* the response {id, md5Checksum} of a create or update
UploadResponse(d, f) == [id |-> f, md5Checksum |-> Md5(d.files[f].body)]

\* the file attribute trashed (absent: false)
Trashed(d, f) == "trashed" \in DOMAIN d.files[f] /\ d.files[f].trashed

findNoteFileByNoteId_none(d, noteId) == {}

\* files.list q = appProperties has noteId, pageSize 1: the files that may
\* come back as files[0] (none: the query is empty)
findNoteFileByNoteId(d, noteId) ==
    {f \in DOMAIN d.files : /\ ~Trashed(d, f)
                            /\ Field(d.files[f].appProperties, "noteId") = noteId}

RECURSIVE SortFiles(_, _)
SortFiles(S, key) ==
    IF S = {} THEN << >>
    ELSE LET first == CHOOSE f \in S : \A g \in S : key[f] <= key[g]
         IN  << first >> \o SortFiles(S \ {first}, key)

\* files.list q = trashed = false and appProperties has kind 'note', all pages
listAllNoteFiles(d) ==
    LET ids == {f \in DOMAIN d.files : /\ ~Trashed(d, f)
                                       /\ KindOf(d.files[f].appProperties) = "note"}
        seq == SortFiles(ids, [f \in FileIds |-> f])
    IN  [i \in 1..Len(seq) |-> [id |-> seq[i], appProperties |-> d.files[seq[i]].appProperties]]

\* changes.getStartPageToken
getStartPageToken(d) == d.seq + 1

ChangeEntry(d, f) ==
    IF f \in DOMAIN d.files
    THEN [fileId |-> f, removed |-> FALSE,
          file |-> [appProperties |-> d.files[f].appProperties, trashed |-> Trashed(d, f)]]
    ELSE [fileId |-> f, removed |-> TRUE, file |-> None]

\* changes.list from pageToken: one page, with nextPageToken while more
\* remain and newStartPageToken on the last page
listChanges(d, pageToken) ==
    LET since == SortFiles({f \in FileIds : d.changeSeq[f] >= pageToken}, d.changeSeq)
        n == IF Len(since) < PageSize THEN Len(since) ELSE PageSize
        more == Len(since) > n
    IN  [changes |-> [i \in 1..n |-> ChangeEntry(d, since[i])],
         nextPageToken |-> IF more THEN d.changeSeq[since[n + 1]] ELSE Null,
         newStartPageToken |-> IF more THEN Null ELSE d.seq + 1]

\* ---------------------------------------------------------------- state
VARIABLES
    notes,      \* store 'notes': noteId -> note
    outbox,     \* store 'outbox': opId -> operation
    driveMap,   \* store 'driveMap': noteId -> {noteId, driveFileId, md5?}
    syncMeta,   \* store 'syncMeta': key -> value
    drive,      \* the user's appDataFolder on Drive
    pc,         \* per sync flow: the await it stands at
    frame,      \* per sync flow: the local variables of syncNow and its callees
    ui,         \* the editing handler in flight (onNew, onSave, onDelete)
    now,        \* the last reading of Date.now()
    hist        \* history: ids handed out and, per sync invocation, what it did

vars == << notes, outbox, driveMap, syncMeta, drive, pc, frame, ui, now, hist >>

CursorKey == "drive.changeCursor"
LastSyncKey == "drive.lastSyncAtMs"

\* getMeta: req.result?.value ?? null
getMeta(meta, key) == IF key \in DOMAIN meta THEN meta[key] ELSE Null

IdleFrame ==
    [ops |-> << >>, i |-> 0, pushed |-> 0, pulled |-> 0,
     note |-> None, noteId |-> Null, fileId |-> Null, resp |-> None,
     cursor |-> Null, files |-> << >>, data |-> None, k |-> 0,
     remoteNote |-> None, merged |-> None, err |-> "", result |-> None,
     effect |-> ""]

IdleUi == [pc |-> "idle", noteId |-> Null, note |-> None]

InitHist ==
    [nNotes |-> 0,            \* note ids handed out by createId, here or elsewhere
     nOps |-> 0,              \* op ids handed out by createId
     done |-> {},             \* ops whose processing ended with deleteOp
     left |-> {},             \* the ops the last push left when it stopped with ops
                              \* removed and ops left, while nothing was enqueued since
     clean |-> FALSE,         \* the last push completed and nothing was edited since
     old |-> {},              \* << note, file >>: the file ids pushDelete deleted for a note
     seen |-> {},             \* << file, change >>: the versions earlier pulls took through
                              \* the merge, while nothing was edited here since
     boot |-> None,           \* since the first bootstrap over the remote state as it is:
                              \* what it yields uninterrupted, and the attempts made
     \* of the flow in flight:
     doneBefore |-> {},       \* the ops done when it began
     called |-> {},           \* the ops it made a Drive call for
     second |-> FALSE,        \* it began in a clean state
     edited |-> FALSE,        \* a local edit since it began
     disturbed |-> FALSE,     \* an edit, here or elsewhere, since it began
     lastSyncAtStart |-> Null,
     got |-> {},              \* << file, change >>: the versions its pull took through the merge
     wrote |-> 0,             \* the notes its pull wrote because the remote version won
     pre |-> None]            \* noteId -> the local and the remote version when it
                              \* began, for the notes in conflict then

Init ==
    /\ notes = None
    /\ outbox = None
    /\ driveMap = None
    /\ syncMeta = None
    /\ drive = EmptyDrive
    /\ pc = [p \in Flows |-> "idle"]
    /\ frame = [p \in Flows |-> IdleFrame]
    /\ ui = IdleUi
    /\ now = 1
    /\ hist = InitHist

InFlight == \E p \in Flows : pc[p] # "idle"

Editing == [hist EXCEPT !.clean = FALSE, !.left = {}, !.seen = {}, !.boot = None,
                        !.edited = InFlight, !.disturbed = InFlight]

\* ------------------------------------------------------ the editing layer
\* queueOp: a new operation {opId, type, noteId, queuedAtMs: Date.now()}
queueOp(type, noteId, t) ==
    /\ hist.nOps < MaxOps
    /\ outbox' = Put(outbox, hist.nOps + 1,
                     [opId |-> hist.nOps + 1, type |-> type, noteId |-> noteId, queuedAtMs |-> t])
    /\ now' = t
    /\ hist' = [Editing EXCEPT !.nOps = hist.nOps + 1]

\* onNew up to its first await: the empty note is stored
OnNewPut ==
    /\ ui.pc = "idle"
    /\ hist.nNotes < MaxNotes
    /\ \E t \in now..MaxTs :
        LET noteId == hist.nNotes + 1
            note == [noteId |-> noteId, title |-> 0, body |-> 0,
                     updatedAtMs |-> t, deletedAtMs |-> Null]
        IN  /\ notes' = Put(notes, noteId, note)
            /\ now' = t
            /\ ui' = [pc |-> "new_queue", noteId |-> noteId, note |-> None]
            /\ hist' = [Editing EXCEPT !.nNotes = noteId]
    /\ UNCHANGED << outbox, driveMap, syncMeta, drive, pc, frame >>

\* onNew: queueOp('upsert', noteId)
OnNewQueue ==
    /\ ui.pc = "new_queue"
    /\ \E t \in now..MaxTs : queueOp("upsert", ui.noteId, t)
    /\ ui' = IdleUi
    /\ UNCHANGED << notes, driveMap, syncMeta, drive, pc, frame >>

\* onSave: getNote(editingNoteId); a missing or deleted note ends the handler
OnSaveGet ==
    /\ ui.pc = "idle"
    /\ \E n \in DOMAIN notes :
        /\ notes[n].deletedAtMs = Null
        /\ ui' = [pc |-> "save_put", noteId |-> n, note |-> notes[n]]
    /\ UNCHANGED << notes, outbox, driveMap, syncMeta, drive, pc, frame, now, hist >>

\* onSave: the editor's text and Date.now() go into the note read, putNote
OnSavePut ==
    /\ ui.pc = "save_put"
    /\ \E t \in now..MaxTs, text \in Texts :
        LET note == [ui.note EXCEPT !.title = text, !.body = text, !.updatedAtMs = t]
        IN  /\ notes' = Put(notes, note.noteId, note)
            /\ now' = t
    /\ ui' = [ui EXCEPT !.pc = "save_queue", !.note = None]
    /\ hist' = Editing
    /\ UNCHANGED << outbox, driveMap, syncMeta, drive, pc, frame >>

\* onSave: queueOp('upsert', note.noteId)
OnSaveQueue ==
    /\ ui.pc = "save_queue"
    /\ \E t \in now..MaxTs : queueOp("upsert", ui.noteId, t)
    /\ ui' = IdleUi
    /\ UNCHANGED << notes, driveMap, syncMeta, drive, pc, frame >>

\* onDelete, softDeleteNote: getNote(activeNoteId) at Date.now()
OnDeleteGet ==
    /\ ui.pc = "idle"
    /\ \E n \in DOMAIN notes, t \in now..MaxTs :
        /\ notes[n].deletedAtMs = Null
        /\ ui' = [pc |-> "delete_put", noteId |-> n, note |-> notes[n]]
        /\ now' = t
    /\ UNCHANGED << notes, outbox, driveMap, syncMeta, drive, pc, frame, hist >>

\* softDeleteNote: deletedAtMs and updatedAtMs set on the note read, putNote
OnDeletePut ==
    /\ ui.pc = "delete_put"
    /\ notes' = Put(notes, ui.noteId, [ui.note EXCEPT !.deletedAtMs = now, !.updatedAtMs = now])
    /\ ui' = [ui EXCEPT !.pc = "delete_queue", !.note = None]
    /\ hist' = Editing
    /\ UNCHANGED << outbox, driveMap, syncMeta, drive, pc, frame, now >>

\* onDelete: queueOp('delete', noteId)
OnDeleteQueue ==
    /\ ui.pc = "delete_queue"
    /\ \E t \in now..MaxTs : queueOp("delete", ui.noteId, t)
    /\ ui' = IdleUi
    /\ UNCHANGED << notes, driveMap, syncMeta, drive, pc, frame >>

\* ------------------------------------------------------------- sync flows
PushPcs == {"push_listOps", "push_op", "push_moot", "push_deleteOp",
            "ups_getMap", "ups_find", "ups_create", "ups_update", "ups_putMap",
            "del_getMap", "del_find", "del_remote", "del_map"}
BootPcs == {"boot_list", "boot_file", "boot_download", "boot_getNote", "boot_putNote",
            "boot_map", "boot_token", "boot_setMeta"}
PullPcs == {"pull_ensureCursor", "pull_list", "pull_change", "pull_download",
            "pull_getNote", "pull_putNote", "pull_map", "pull_setMeta"} \cup BootPcs
\* a rejected Drive request other than a 404: network, 401/403, 5xx
RemoteErrors == {"rejected"}

Goto(p, label) == pc' = [pc EXCEPT ![p] = label]
Set(p, f) == frame' = [frame EXCEPT ![p] = f]

Throw_swallowed(p, e) ==
    /\ pc' = [pc EXCEPT ![p] = "sync_setLast"]
    /\ UNCHANGED frame

\* a rejected await: the exception leaves syncNow, whose frames are gone (the
\* snapshot and the loop index are kept on as history of the push that failed)
Throw(p, e) ==
    /\ Goto(p, "failed")
    /\ Set(p, [IdleFrame EXCEPT !.err = e, !.ops = frame[p].ops, !.i = frame[p].i,
                                !.result = frame[p].result])

CurOp(p) == frame[p].ops[frame[p].i]

Called(h, p) == [h EXCEPT !.called = h.called \cup {CurOp(p).opId}]
Done(h, p) == [h EXCEPT !.done = h.done \cup {CurOp(p).opId}]

\* the notes edited here (an upsert is queued) whose file holds another version
Conflicts ==
    LET fileOf(n) == CHOOSE f \in DOMAIN drive.files :
                        /\ drive.files[f].appProperties.noteId = n
                        /\ JSONparse(drive.files[f].body).ok
        inConflict == {n \in DOMAIN notes :
                        /\ notes[n].deletedAtMs = Null
                        /\ \E id \in DOMAIN outbox :
                              outbox[id].type = "upsert" /\ outbox[id].noteId = n
                        /\ \E f \in DOMAIN drive.files :
                              /\ drive.files[f].appProperties.noteId = n
                              /\ JSONparse(drive.files[f].body).ok
                              /\ JSONparse(drive.files[f].body).value # notes[n]}
    IN  [n \in inConflict |->
            [local |-> notes[n], remote |-> JSONparse(drive.files[fileOf(n)].body).value]]

\* onSync: the token is there, syncNow is entered
OnSync(p) ==
    /\ pc[p] = "idle"
    /\ Goto(p, "push_listOps")
    /\ Set(p, IdleFrame)
    /\ hist' = [hist EXCEPT !.called = {},
                            !.doneBefore = hist.done,
                            !.edited = FALSE,
                            !.second = hist.clean,
                            !.lastSyncAtStart = getMeta(syncMeta, LastSyncKey),
                            !.pre = Conflicts,
                            !.disturbed = FALSE]
    /\ UNCHANGED << notes, outbox, driveMap, syncMeta, drive, ui, now >>

\* pushOutbox: const ops = await listOps(db)
PushListOps(p) ==
    /\ pc[p] = "push_listOps"
    /\ Goto(p, "push_op")
    /\ Set(p, [frame[p] EXCEPT !.ops = listOps(outbox), !.i = 1, !.pushed = 0])
    /\ UNCHANGED << notes, outbox, driveMap, syncMeta, drive, ui, now, hist >>

PushNextOp_noRedirect(p) ==
    /\ pc[p] = "push_op"
    /\ frame[p].i <= Len(frame[p].ops)
    /\ LET op == CurOp(p)
           note == Get(notes, op.noteId)
       IN  IF op.type = "upsert"
           THEN IF note = None
                THEN /\ Goto(p, "push_moot")
                     /\ Set(p, [frame[p] EXCEPT !.effect = "moot"])
                ELSE /\ Goto(p, "ups_getMap")
                     /\ Set(p, [frame[p] EXCEPT !.note = note])
           ELSE /\ Goto(p, "del_getMap")
                /\ Set(p, [frame[p] EXCEPT !.noteId = op.noteId])
    /\ UNCHANGED << notes, outbox, driveMap, syncMeta, drive, ui, now, hist >>

\* for (const op of ops): an upsert reads the note as it is now
PushNextOp(p) ==
    /\ pc[p] = "push_op"
    /\ frame[p].i <= Len(frame[p].ops)
    /\ LET op == CurOp(p)
           note == Get(notes, op.noteId)
       IN  IF op.type = "upsert"
           THEN IF note = None
                THEN /\ Goto(p, "push_moot")
                     /\ Set(p, [frame[p] EXCEPT !.effect = "moot"])
                ELSE IF note.deletedAtMs # Null
                THEN /\ Goto(p, "del_getMap")
                     /\ Set(p, [frame[p] EXCEPT !.noteId = note.noteId])
                ELSE /\ Goto(p, "ups_getMap")
                     /\ Set(p, [frame[p] EXCEPT !.note = note])
           ELSE /\ Goto(p, "del_getMap")
                /\ Set(p, [frame[p] EXCEPT !.noteId = op.noteId])
    /\ UNCHANGED << notes, outbox, driveMap, syncMeta, drive, ui, now, hist >>

PushMoot_counted(p) ==
    /\ pc[p] = "push_moot"
    /\ outbox' = deleteOp(outbox, CurOp(p).opId)
    /\ Goto(p, "push_op")
    /\ Set(p, [frame[p] EXCEPT !.i = @ + 1, !.pushed = @ + 1, !.effect = ""])
    /\ hist' = Done(hist, p)
    /\ UNCHANGED << notes, driveMap, syncMeta, drive, ui, now >>

\* the note is gone: deleteOp, not counted.  No handler of the application
\* deletes a note record, so no behaviour that starts from a fresh install
\* takes this step.
PushMoot(p) ==
    /\ pc[p] = "push_moot"
    /\ outbox' = deleteOp(outbox, CurOp(p).opId)
    /\ Goto(p, "push_op")
    /\ Set(p, [frame[p] EXCEPT !.i = @ + 1, !.effect = ""])
    /\ hist' = Done(hist, p)
    /\ UNCHANGED << notes, driveMap, syncMeta, drive, ui, now >>

PushDeleteOp_coalesce(p) ==
    /\ pc[p] = "push_deleteOp"
    /\ outbox' = [id \in {x \in DOMAIN outbox : outbox[x].noteId # CurOp(p).noteId} |-> outbox[id]]
    /\ Goto(p, "push_op")
    /\ Set(p, [frame[p] EXCEPT !.i = @ + 1, !.pushed = @ + 1,
                               !.note = None, !.noteId = Null, !.fileId = Null, !.resp = None,
                               !.effect = ""])
    /\ hist' = Done(hist, p)
    /\ UNCHANGED << notes, driveMap, syncMeta, drive, ui, now >>

PushDeleteOp_early(p) ==
    /\ pc[p] \in {"push_deleteOp", "ups_getMap", "del_getMap"}
    /\ outbox' = deleteOp(outbox, CurOp(p).opId)
    /\ Goto(p, "push_op")
    /\ Set(p, [frame[p] EXCEPT !.i = @ + 1, !.pushed = @ + 1,
                               !.note = None, !.noteId = Null, !.fileId = Null, !.resp = None,
                               !.effect = ""])
    /\ hist' = Done(hist, p)
    /\ UNCHANGED << notes, driveMap, syncMeta, drive, ui, now >>

PushDeleteOp_skip(p) ==
    /\ pc[p] = "push_deleteOp"
    /\ Goto(p, "push_op")
    /\ Set(p, [frame[p] EXCEPT !.i = @ + 1, !.pushed = @ + 1,
                               !.note = None, !.noteId = Null, !.fileId = Null, !.resp = None,
                               !.effect = ""])
    /\ hist' = Done(hist, p)
    /\ UNCHANGED << notes, outbox, driveMap, syncMeta, drive, ui, now >>

\* pushUpsert or pushDelete returned: deleteOp, pushed++
PushDeleteOp(p) ==
    /\ pc[p] = "push_deleteOp"
    /\ outbox' = deleteOp(outbox, CurOp(p).opId)
    /\ Goto(p, "push_op")
    /\ Set(p, [frame[p] EXCEPT !.i = @ + 1, !.pushed = @ + 1,
                               !.note = None, !.noteId = Null, !.fileId = Null, !.resp = None,
                               !.effect = ""])
    /\ hist' = Done(hist, p)
    /\ UNCHANGED << notes, driveMap, syncMeta, drive, ui, now >>

\* pushUpsert: mapping?.driveFileId || null
UpsGetMap(p) ==
    /\ pc[p] = "ups_getMap"
    /\ LET fileId == Field(Get(driveMap, frame[p].note.noteId), "driveFileId")
       IN  /\ Set(p, [frame[p] EXCEPT !.fileId = fileId])
           /\ Goto(p, IF fileId = Null THEN "ups_find" ELSE "ups_update")
    /\ UNCHANGED << notes, outbox, driveMap, syncMeta, drive, ui, now, hist >>

UpsFind_create(p) ==
    /\ pc[p] = "ups_find"
    /\ \/ /\ Goto(p, "ups_create")
          /\ UNCHANGED frame
       \/ \E e \in RemoteErrors : Throw(p, e)
    /\ hist' = Called(hist, p)
    /\ UNCHANGED << notes, outbox, driveMap, syncMeta, drive, ui, now >>

\* pushUpsert: no mapping, findNoteFileByNoteId
UpsFind(p) ==
    /\ pc[p] = "ups_find"
    /\ LET found == findNoteFileByNoteId(drive, frame[p].note.noteId)
       IN  \/ /\ found = {}
              /\ Goto(p, "ups_create")
              /\ UNCHANGED frame
           \/ \E f \in found :
                /\ Goto(p, "ups_update")
                /\ Set(p, [frame[p] EXCEPT !.fileId = f])
           \/ \E e \in RemoteErrors : Throw(p, e)
    /\ hist' = Called(hist, p)
    /\ UNCHANGED << notes, outbox, driveMap, syncMeta, drive, ui, now >>

\* pushUpsert: createJsonFileMultipart; the request can fail before or after
\* Drive has applied it
UpsCreate(p) ==
    /\ pc[p] = "ups_create"
    /\ LET note == frame[p].note
           after == createJsonFileMultipart(drive, NoteProps(note.noteId), note)
       IN  \/ /\ CanCreate(drive)
              /\ drive' = after
              /\ Goto(p, "ups_putMap")
              /\ Set(p, [frame[p] EXCEPT !.resp = UploadResponse(after, NewFileId(drive)),
                                         !.effect = "created"])
              /\ hist' = Called(hist, p)
           \/ /\ CanCreate(drive)
              /\ drive' = after
              /\ \E e \in RemoteErrors : Throw(p, e)
              /\ hist' = Called(hist, p)
           \/ /\ UNCHANGED drive
              /\ \E e \in RemoteErrors : Throw(p, e)
              /\ hist' = Called(hist, p)
    /\ UNCHANGED << notes, outbox, driveMap, syncMeta, ui, now >>

\* pushUpsert: updateJsonFileMultipart of fileId; a file that is gone is a 404
UpsUpdate(p) ==
    /\ pc[p] = "ups_update"
    /\ LET note == frame[p].note
           fileId == frame[p].fileId
           after == updateJsonFileMultipart(drive, fileId, NoteProps(note.noteId), note)
       IN  \/ /\ fileId \in DOMAIN drive.files
              /\ CanChange(drive)
              /\ drive' = after
              /\ Goto(p, "ups_putMap")
              /\ Set(p, [frame[p] EXCEPT !.resp = UploadResponse(after, fileId),
                                         !.effect = "updated"])
              /\ hist' = Called(hist, p)
           \/ /\ fileId \in DOMAIN drive.files
              /\ CanChange(drive)
              /\ drive' = after
              /\ \E e \in RemoteErrors : Throw(p, e)
              /\ hist' = Called(hist, p)
           \/ /\ fileId \notin DOMAIN drive.files
              /\ UNCHANGED drive
              /\ Throw(p, "notFound")
              /\ hist' = Called(hist, p)
           \/ /\ UNCHANGED drive
              /\ \E e \in RemoteErrors : Throw(p, e)
              /\ hist' = Called(hist, p)
    /\ UNCHANGED << notes, outbox, driveMap, syncMeta, ui, now >>

\* pushUpsert: putDriveMap({noteId, driveFileId, md5}) from the response
UpsPutMap(p) ==
    /\ pc[p] = "ups_putMap"
    /\ LET noteId == frame[p].note.noteId
       IN  driveMap' = Put(driveMap, noteId,
                           [noteId |-> noteId, driveFileId |-> frame[p].resp.id,
                            md5 |-> frame[p].resp.md5Checksum])
    /\ Goto(p, "push_deleteOp")
    /\ UNCHANGED << notes, outbox, syncMeta, drive, frame, ui, now, hist >>

\* pushDelete: mapping?.driveFileId
DelGetMap(p) ==
    /\ pc[p] = "del_getMap"
    /\ LET fileId == Field(Get(driveMap, frame[p].noteId), "driveFileId")
       IN  /\ Set(p, [frame[p] EXCEPT !.fileId = fileId])
           /\ Goto(p, IF fileId = Null THEN "del_find" ELSE "del_remote")
    /\ UNCHANGED << notes, outbox, driveMap, syncMeta, drive, ui, now, hist >>

\* pushDelete: no mapping, (await findNoteFileByNoteId)?.id || null
DelFind(p) ==
    /\ pc[p] = "del_find"
    /\ LET found == findNoteFileByNoteId(drive, frame[p].noteId)
       IN  \/ /\ found = {}
              /\ Goto(p, "del_map")
              /\ Set(p, [frame[p] EXCEPT !.effect = "noFile"])
              /\ hist' = Called(hist, p)
           \/ /\ \E f \in found :
                    /\ Goto(p, "del_remote")
                    /\ Set(p, [frame[p] EXCEPT !.fileId = f])
              /\ hist' = Called(hist, p)
           \/ /\ \E e \in RemoteErrors : Throw(p, e)
              /\ hist' = Called(hist, p)
    /\ UNCHANGED << notes, outbox, driveMap, syncMeta, drive, ui, now >>

IsNotFound_never(e) == FALSE

\* the catch of pushDelete: msg.includes('File not found') || msg.includes('404')
IsNotFound(e) == e = "notFound"

\* pushDelete: deleteFile(fileId) in its try/catch
DelRemote(p) ==
    /\ pc[p] = "del_remote"
    /\ LET fileId == frame[p].fileId
       IN  \/ /\ fileId \in DOMAIN drive.files
              /\ CanChange(drive)
              /\ drive' = deleteFile(drive, fileId)
              /\ Goto(p, "del_map")
              /\ Set(p, [frame[p] EXCEPT !.effect = "deleted"])
              /\ hist' = Called(hist, p)
           \/ /\ fileId \in DOMAIN drive.files
              /\ CanChange(drive)
              /\ drive' = deleteFile(drive, fileId)
              /\ \E e \in RemoteErrors : Throw(p, e)
              /\ hist' = Called(hist, p)
           \/ /\ \E e \in RemoteErrors \cup (IF fileId \in DOMAIN drive.files THEN {} ELSE {"notFound"}) :
                    IF IsNotFound(e)
                    THEN /\ Goto(p, "del_map")
                         /\ Set(p, [frame[p] EXCEPT !.effect = "notFound"])
                    ELSE Throw(p, e)
              /\ hist' = Called(hist, p)
              /\ UNCHANGED drive
    /\ UNCHANGED << notes, outbox, driveMap, syncMeta, ui, now >>

DelMap_keep(p) ==
    /\ pc[p] = "del_map"
    /\ Goto(p, "push_deleteOp")
    /\ hist' = [hist EXCEPT !.old = IF frame[p].fileId = Null THEN @
                                    ELSE @ \cup {<< frame[p].noteId, frame[p].fileId >>}]
    /\ UNCHANGED << notes, outbox, driveMap, syncMeta, drive, frame, ui, now >>

\* pushDelete: deleteDriveMap(noteId)
DelMap(p) ==
    /\ pc[p] = "del_map"
    /\ driveMap' = Del(driveMap, frame[p].noteId)
    /\ Goto(p, "push_deleteOp")
    /\ hist' = [hist EXCEPT !.old = IF frame[p].fileId = Null THEN @
                                    ELSE @ \cup {<< frame[p].noteId, frame[p].fileId >>}]
    /\ UNCHANGED << notes, outbox, syncMeta, drive, frame, ui, now >>

PushReturn_clear(p) ==
    /\ pc[p] = "push_op"
    /\ frame[p].i > Len(frame[p].ops)
    /\ outbox' = None
    /\ Goto(p, "pull_ensureCursor")
    /\ Set(p, [frame[p] EXCEPT !.result = [pushed |-> frame[p].pushed]])
    /\ hist' = [hist EXCEPT !.clean = ~hist.edited]
    /\ UNCHANGED << notes, driveMap, syncMeta, drive, ui, now >>

PushReturn_early(p) ==
    /\ pc[p] = "push_op"
    /\ Goto(p, "pull_ensureCursor")
    /\ Set(p, [frame[p] EXCEPT !.result = [pushed |-> frame[p].pushed]])
    /\ hist' = [hist EXCEPT !.clean = ~hist.edited]
    /\ UNCHANGED << notes, outbox, driveMap, syncMeta, drive, ui, now >>

\* pushOutbox returns pushed; syncNow goes on to pullChanges
PushReturn(p) ==
    /\ pc[p] = "push_op"
    /\ frame[p].i > Len(frame[p].ops)
    /\ Goto(p, "pull_ensureCursor")
    /\ Set(p, [frame[p] EXCEPT !.result = [pushed |-> frame[p].pushed]])
    /\ hist' = [hist EXCEPT !.clean = ~hist.edited]
    /\ UNCHANGED << notes, outbox, driveMap, syncMeta, drive, ui, now >>

\* downloadFile (alt=media): the body text of an existing file
downloadFile(d, f) == d.files[f].body

\* props.kind !== 'note' || !props.noteId
NotANoteFile(props) == KindOf(props) # "note" \/ Field(props, "noteId") = Null

\* ---------------------------------------------------------------- the pull
\* putNote(db, merged)
putNote(store, note) == Put(store, note.noteId, note)

\* getDriveMap(remoteNote.noteId); if (!mapping?.driveFileId) putDriveMap
EnsureMapping(map, noteId, fileId) ==
    IF Field(Get(map, noteId), "driveFileId") = Null
    THEN Put(map, noteId, [noteId |-> noteId, driveFileId |-> fileId])
    ELSE map

\* history: a bootstrap begins; the first one over this remote state notes
\* what the loop of ensureCursor yields when nothing interrupts it
RECURSIVE BootLoop(_, _, _)
BootLoop(files, ns, map) ==
    IF files = << >> THEN [notes |-> ns, driveMap |-> map]
    ELSE LET f == Head(files)
             parsed == JSONparse(downloadFile(drive, f.id))
             remoteNote == parsed.value
             m == mergeLastWriteWins(Get(ns, remoteNote.noteId), remoteNote)
         IN  IF NotANoteFile(f.appProperties) \/ ~parsed.ok
             THEN BootLoop(Tail(files), ns, map)
             ELSE IF remoteNote = None \/ Field(remoteNote, "noteId") = Null
             THEN [notes |-> ns, driveMap |-> map]
             ELSE BootLoop(Tail(files),
                           IF m.winner = "remote" THEN putNote(ns, m.merged) ELSE ns,
                           EnsureMapping(map, remoteNote.noteId, f.id))

Booting(h) ==
    [h EXCEPT !.boot =
        IF @ = None
        THEN [tries |-> 1] @@ BootLoop(listAllNoteFiles(drive), notes, driveMap)
        ELSE [@ EXCEPT !.tries = 2]]

PullEnsureCursor_always(p) ==
    /\ pc[p] = "pull_ensureCursor"
    /\ Goto(p, "boot_list")
    /\ Set(p, [frame[p] EXCEPT !.pulled = 0])
    /\ hist' = Booting(hist)
    /\ UNCHANGED << notes, outbox, driveMap, syncMeta, drive, ui, now >>

\* pullChanges -> ensureCursor: getMeta('drive.changeCursor'); if (cursor) return
PullEnsureCursor(p) ==
    /\ pc[p] = "pull_ensureCursor"
    /\ LET cursor == getMeta(syncMeta, CursorKey)
       IN  IF cursor # Null
           THEN /\ Goto(p, "pull_list")
                /\ Set(p, [frame[p] EXCEPT !.cursor = cursor, !.pulled = 0])
                /\ UNCHANGED hist
           ELSE /\ Goto(p, "boot_list")
                /\ Set(p, [frame[p] EXCEPT !.pulled = 0])
                /\ hist' = Booting(hist)
    /\ UNCHANGED << notes, outbox, driveMap, syncMeta, drive, ui, now >>

BootList_tokenFirst(p) ==
    /\ pc[p] = "boot_list"
    /\ syncMeta' = Put(syncMeta, CursorKey, getStartPageToken(drive))
    /\ \/ /\ Goto(p, "boot_file")
          /\ Set(p, [frame[p] EXCEPT !.files = listAllNoteFiles(drive), !.k = 1])
       \/ \E e \in RemoteErrors : Throw(p, e)
    /\ UNCHANGED << notes, outbox, driveMap, drive, ui, now, hist >>

\* ensureCursor: const files = await listAllNoteFiles(auth)
BootList(p) ==
    /\ pc[p] = "boot_list"
    /\ \/ /\ Goto(p, "boot_file")
          /\ Set(p, [frame[p] EXCEPT !.files = listAllNoteFiles(drive), !.k = 1])
       \/ \E e \in RemoteErrors : Throw(p, e)
    /\ UNCHANGED << notes, outbox, driveMap, syncMeta, drive, ui, now, hist >>

BootFile_first(p) ==
    /\ pc[p] = "boot_file"
    /\ IF frame[p].k > Len(frame[p].files) \/ frame[p].k > 1
       THEN /\ Goto(p, "boot_token")
            /\ Set(p, [frame[p] EXCEPT !.files = << >>, !.k = 0])
       ELSE IF NotANoteFile(frame[p].files[frame[p].k].appProperties)
       THEN /\ Set(p, [frame[p] EXCEPT !.k = @ + 1])
            /\ UNCHANGED pc
       ELSE /\ Goto(p, "boot_download")
            /\ Set(p, [frame[p] EXCEPT !.fileId = frame[p].files[frame[p].k].id])
    /\ UNCHANGED << notes, outbox, driveMap, syncMeta, drive, ui, now, hist >>

\* ensureCursor, for (const f of files): skip what is no note file; after the
\* last file go on to getStartPageToken
BootFile(p) ==
    /\ pc[p] = "boot_file"
    /\ IF frame[p].k > Len(frame[p].files)
       THEN /\ Goto(p, "boot_token")
            /\ Set(p, [frame[p] EXCEPT !.files = << >>, !.k = 0])
       ELSE IF NotANoteFile(frame[p].files[frame[p].k].appProperties)
       THEN /\ Set(p, [frame[p] EXCEPT !.k = @ + 1])
            /\ UNCHANGED pc
       ELSE /\ Goto(p, "boot_download")
            /\ Set(p, [frame[p] EXCEPT !.fileId = frame[p].files[frame[p].k].id])
    /\ UNCHANGED << notes, outbox, driveMap, syncMeta, drive, ui, now, hist >>

\* downloadFile, then JSON.parse in its try/catch: the note, a skip, or a throw
Download(p, next, skip) ==
    /\ \/ /\ frame[p].fileId \in DOMAIN drive.files
          /\ LET parsed == JSONparse(downloadFile(drive, frame[p].fileId))
             IN  IF parsed.ok
                 THEN /\ Goto(p, next)
                      /\ Set(p, [frame[p] EXCEPT !.remoteNote = parsed.value])
                 ELSE /\ Goto(p, skip)
                      /\ Set(p, [frame[p] EXCEPT !.k = @ + 1, !.fileId = Null])
       \/ /\ frame[p].fileId \notin DOMAIN drive.files
          /\ Throw(p, "notFound")
       \/ \E e \in RemoteErrors : Throw(p, e)
    /\ UNCHANGED << notes, outbox, driveMap, syncMeta, drive, ui, now, hist >>

GetNoteAndMerge_blind(p, put, map) ==
    /\ LET remoteNote == frame[p].remoteNote
           m == mergeLastWriteWins(None, remoteNote)
       IN  /\ Goto(p, put)
           /\ Set(p, [frame[p] EXCEPT !.merged = m.merged])
    /\ UNCHANGED << notes, outbox, driveMap, syncMeta, drive, ui, now, hist >>

\* getNote(remoteNote.noteId), mergeLastWriteWins, if (winner === 'remote').
\* Reading noteId of null is a TypeError, and store.get(undefined) of getNote
\* is a DataError: both are outside the try of JSON.parse.
GetNoteAndMerge(p, put, map) ==
    /\ LET remoteNote == frame[p].remoteNote
           local == Get(notes, remoteNote.noteId)
           m == mergeLastWriteWins(local, remoteNote)
       IN  IF remoteNote = None
           THEN Throw(p, "TypeError")
           ELSE IF Field(remoteNote, "noteId") = Null
           THEN Throw(p, "DataError")
           ELSE IF m.winner = "remote"
           THEN /\ Goto(p, put)
                /\ Set(p, [frame[p] EXCEPT !.merged = m.merged])
           ELSE /\ Goto(p, map)
                /\ UNCHANGED frame
    /\ UNCHANGED << notes, outbox, driveMap, syncMeta, drive, ui, now, hist >>

\* ensureCursor: downloadFile(f.id) and JSON.parse
BootDownload(p) ==
    /\ pc[p] = "boot_download"
    /\ Download(p, "boot_getNote", "boot_file")

\* ensureCursor: getNote and merge
BootGetNote(p) ==
    /\ pc[p] = "boot_getNote"
    /\ GetNoteAndMerge(p, "boot_putNote", "boot_map")

BootPutNote_skip(p) ==
    /\ pc[p] = "boot_putNote"
    /\ Goto(p, "boot_map")
    /\ Set(p, [frame[p] EXCEPT !.merged = None])
    /\ UNCHANGED << notes, outbox, driveMap, syncMeta, drive, ui, now, hist >>

\* ensureCursor: remote won, putNote(db, merged)
BootPutNote(p) ==
    /\ pc[p] = "boot_putNote"
    /\ notes' = putNote(notes, frame[p].merged)
    /\ Goto(p, "boot_map")
    /\ Set(p, [frame[p] EXCEPT !.merged = None])
    /\ hist' = [hist EXCEPT !.wrote = @ + 1]
    /\ UNCHANGED << outbox, driveMap, syncMeta, drive, ui, now >>

\* ensureCursor: the mapping is ensured, next file
BootMap(p) ==
    /\ pc[p] = "boot_map"
    /\ driveMap' = EnsureMapping(driveMap, frame[p].remoteNote.noteId, frame[p].fileId)
    /\ Goto(p, "boot_file")
    /\ Set(p, [frame[p] EXCEPT !.k = @ + 1, !.fileId = Null, !.remoteNote = None])
    /\ UNCHANGED << notes, outbox, syncMeta, drive, ui, now, hist >>

\* ensureCursor: cursor = await getStartPageToken(auth)
BootToken(p) ==
    /\ pc[p] = "boot_token"
    /\ \/ /\ Goto(p, "boot_setMeta")
          /\ Set(p, [frame[p] EXCEPT !.cursor = getStartPageToken(drive)])
       \/ \E e \in RemoteErrors : Throw(p, e)
    /\ UNCHANGED << notes, outbox, driveMap, syncMeta, drive, ui, now, hist >>

\* ensureCursor: setMeta('drive.changeCursor', cursor); return cursor
BootSetMeta(p) ==
    /\ pc[p] = "boot_setMeta"
    /\ syncMeta' = Put(syncMeta, CursorKey, frame[p].cursor)
    /\ Goto(p, "pull_list")
    /\ UNCHANGED << notes, outbox, driveMap, drive, frame, ui, now, hist >>

\* pullChanges: const data = await listChanges({pageToken: cursor})
PullList(p) ==
    /\ pc[p] = "pull_list"
    /\ \/ /\ Goto(p, "pull_change")
          /\ Set(p, [frame[p] EXCEPT !.data = listChanges(drive, frame[p].cursor), !.k = 1])
       \/ \E e \in RemoteErrors : Throw(p, e)
    /\ UNCHANGED << notes, outbox, driveMap, syncMeta, drive, ui, now, hist >>

SkipChange_untrashed(ch) ==
    \/ ch.fileId = Null
    \/ ch.removed
    \/ NotANoteFile(Field(ch.file, "appProperties"))

\* !ch?.fileId, ch.removed || ch.file?.trashed, and the appProperties test
SkipChange(ch) ==
    \/ ch.fileId = Null
    \/ ch.removed
    \/ Field(ch.file, "trashed") = TRUE
    \/ NotANoteFile(Field(ch.file, "appProperties"))

\* pullChanges, for (const ch of changes): skip removals and what is no note
\* file; after the last entry follow nextPageToken or go on to store the cursor
PullChange(p) ==
    /\ pc[p] = "pull_change"
    /\ LET data == frame[p].data
       IN  IF frame[p].k > Len(data.changes)
           THEN IF data.nextPageToken # Null
                THEN /\ Goto(p, "pull_list")
                     /\ Set(p, [frame[p] EXCEPT !.cursor = data.nextPageToken,
                                                !.data = None, !.k = 0])
                ELSE /\ Goto(p, "pull_setMeta")
                     /\ Set(p, [frame[p] EXCEPT !.k = 0])
           ELSE IF SkipChange(data.changes[frame[p].k])
           THEN /\ Set(p, [frame[p] EXCEPT !.k = @ + 1])
                /\ UNCHANGED pc
           ELSE /\ Goto(p, "pull_download")
                /\ Set(p, [frame[p] EXCEPT !.fileId = data.changes[frame[p].k].fileId])
    /\ UNCHANGED << notes, outbox, driveMap, syncMeta, drive, ui, now, hist >>

\* pullChanges: downloadFile(ch.fileId) and JSON.parse
PullDownload(p) ==
    /\ pc[p] = "pull_download"
    /\ Download(p, "pull_getNote", "pull_change")

\* pullChanges: getNote and merge
PullGetNote(p) ==
    /\ pc[p] = "pull_getNote"
    /\ GetNoteAndMerge(p, "pull_putNote", "pull_map")

\* pullChanges: remote won, putNote(db, merged); pulled++
PullPutNote(p) ==
    /\ pc[p] = "pull_putNote"
    /\ notes' = putNote(notes, frame[p].merged)
    /\ Goto(p, "pull_map")
    /\ Set(p, [frame[p] EXCEPT !.merged = None, !.pulled = @ + 1])
    /\ hist' = [hist EXCEPT !.wrote = @ + 1]
    /\ UNCHANGED << outbox, driveMap, syncMeta, drive, ui, now >>

\* pullChanges: the mapping is ensured, next change
PullMap(p) ==
    /\ pc[p] = "pull_map"
    /\ driveMap' = EnsureMapping(driveMap, frame[p].remoteNote.noteId, frame[p].fileId)
    /\ Goto(p, "pull_change")
    /\ Set(p, [frame[p] EXCEPT !.k = @ + 1, !.fileId = Null, !.remoteNote = None])
    /\ hist' = [hist EXCEPT !.got = @ \cup {<< frame[p].fileId, drive.changeSeq[frame[p].fileId] >>}]
    /\ UNCHANGED << notes, outbox, syncMeta, drive, ui, now >>

PullSetMeta_pageToken(p) ==
    /\ pc[p] = "pull_setMeta"
    /\ syncMeta' = Put(syncMeta, CursorKey, frame[p].cursor)
    /\ Goto(p, "sync_setLast")
    /\ Set(p, [frame[p] EXCEPT !.data = None, !.cursor = Null,
                               !.result = [pushed |-> @.pushed, pulled |-> frame[p].pulled]])
    /\ UNCHANGED << notes, outbox, driveMap, drive, ui, now, hist >>

\* pullChanges: setMeta('drive.changeCursor', newStartPageToken || cursor); return pulled
PullSetMeta(p) ==
    /\ pc[p] = "pull_setMeta"
    /\ LET data == frame[p].data
       IN  syncMeta' = Put(syncMeta, CursorKey,
                           IF data.newStartPageToken # Null THEN data.newStartPageToken
                           ELSE frame[p].cursor)
    /\ Goto(p, "sync_setLast")
    /\ Set(p, [frame[p] EXCEPT !.data = None, !.cursor = Null,
                               !.result = [pushed |-> @.pushed, pulled |-> frame[p].pulled]])
    /\ UNCHANGED << notes, outbox, driveMap, drive, ui, now, hist >>

\* syncNow: setMeta('drive.lastSyncAtMs', Date.now()); return {pushed, pulled}
SyncSetLast(p) ==
    /\ pc[p] = "sync_setLast"
    /\ \E t \in now..MaxTs :
        /\ syncMeta' = Put(syncMeta, LastSyncKey, t)
        /\ now' = t
    /\ Goto(p, "done")
    /\ UNCHANGED << notes, outbox, driveMap, drive, frame, ui, hist >>

\* the versions among S that are the latest of their files on Drive d
Latest(S, d) == {v \in S : v[1] \in DOMAIN d.files /\ d.changeSeq[v[1]] = v[2]}

\* the history of a flow ends with it
Ended ==
    [hist EXCEPT !.left = {}, !.doneBefore = {}, !.called = {}, !.second = FALSE,
                 !.edited = FALSE, !.disturbed = FALSE, !.lastSyncAtStart = Null,
                 !.pre = None, !.got = {}, !.wrote = 0,
                 !.seen = IF hist.edited THEN {} ELSE Latest(@ \cup hist.got, drive),
                 !.boot = IF getMeta(syncMeta, CursorKey) # Null THEN None ELSE @]

\* ... and a push that stops with ops removed and ops left is remembered
Stopped(p) ==
    LET ids == {frame[p].ops[j].opId : j \in 1..Len(frame[p].ops)}
        left == ids \ hist.done
    IN  IF frame[p].result = None /\ left # {} /\ ids \ left # {} /\ ~hist.edited
        THEN [Ended EXCEPT !.left = left]
        ELSE Ended

\* onSync after syncNow resolved: refreshList, the badge shows the counts
SyncDone(p) ==
    /\ pc[p] = "done"
    /\ Goto(p, "idle")
    /\ Set(p, IdleFrame)
    /\ hist' = Ended
    /\ UNCHANGED << notes, outbox, driveMap, syncMeta, drive, ui, now >>

\* onSync, catch (e): the badge shows 'Sync error', alert
SyncCatch(p) ==
    /\ pc[p] = "failed"
    /\ Goto(p, "idle")
    /\ Set(p, IdleFrame)
    /\ hist' = Stopped(p)
    /\ UNCHANGED << notes, outbox, driveMap, syncMeta, drive, ui, now >>

\* the page is closed or reloaded: every handler in flight is gone, the
\* stores and Drive stay as they are
Crash ==
    /\ \/ ui.pc # "idle"
       \/ \E p \in Flows : pc[p] # "idle"
    /\ pc' = [p \in Flows |-> "idle"]
    /\ frame' = [p \in Flows |-> IdleFrame]
    /\ ui' = IdleUi
    /\ hist' = IF pc[1] = "idle" THEN hist ELSE Stopped(1)
    /\ UNCHANGED << notes, outbox, driveMap, syncMeta, drive, now >>

\* ------------------------------------------------------- the other devices
\* The same application on another device, seen through Drive: it uploads a
\* note of its own, uploads a new version of a note it has pulled, or deletes
\* the file of a note it deleted.
OtherNote(noteId, text, t) ==
    [noteId |-> noteId, title |-> text, body |-> text, updatedAtMs |-> t, deletedAtMs |-> Null]

Elsewhere == [hist EXCEPT !.disturbed = InFlight, !.boot = None,
                          !.seen = Latest(@, drive')]

OtherCreate ==
    /\ hist.nNotes < MaxNotes
    /\ CanCreate(drive)
    /\ \E t \in Times, text \in Texts :
        LET noteId == hist.nNotes + 1
        IN  /\ drive' = createJsonFileMultipart(drive, NoteProps(noteId), OtherNote(noteId, text, t))
            /\ hist' = [Elsewhere EXCEPT !.nNotes = noteId]
    /\ UNCHANGED << notes, outbox, driveMap, syncMeta, pc, frame, ui, now >>

OtherUpdate ==
    /\ CanChange(drive)
    /\ \E f \in DOMAIN drive.files, t \in Times, text \in Texts :
        LET noteId == drive.files[f].appProperties.noteId
        IN  drive' = updateJsonFileMultipart(drive, f, NoteProps(noteId), OtherNote(noteId, text, t))
    /\ hist' = Elsewhere
    /\ UNCHANGED << notes, outbox, driveMap, syncMeta, pc, frame, ui, now >>

OtherDelete ==
    /\ CanChange(drive)
    /\ \E f \in DOMAIN drive.files : drive' = deleteFile(drive, f)
    /\ hist' = Elsewhere
    /\ UNCHANGED << notes, outbox, driveMap, syncMeta, pc, frame, ui, now >>

\* Bodies that are no note record: a text that is no JSON, the JSON text
\* null, and a JSON object without noteId.
Malformed ==
    {[kind |-> "text", value |-> None], JSONstringify(None), JSONstringify([title |-> 1])}

\* a client that is not this application writes such a body into a note file
OtherCorrupt ==
    /\ CanChange(drive)
    /\ \E f \in DOMAIN drive.files, body \in Malformed :
        drive' = [Touch(drive, f) EXCEPT !.files[f].body = body]
    /\ hist' = Elsewhere
    /\ UNCHANGED << notes, outbox, driveMap, syncMeta, pc, frame, ui, now >>

\* pushUpsert on a device that holds a note without a mapping, after the
\* note's file was deleted: no file carries the noteId, so it creates a new
\* one.  The notes taken are those this device has a mapping for, which shows
\* that they reached Drive.
OtherReupload ==
    /\ CanCreate(drive)
    /\ \E n \in DOMAIN driveMap, t \in Times, text \in Texts :
        /\ driveMap[n].driveFileId \notin DOMAIN drive.files
        /\ findNoteFileByNoteId(drive, n) = {}
        /\ drive' = createJsonFileMultipart(drive, NoteProps(n), OtherNote(n, text, t))
    /\ hist' = Elsewhere
    /\ UNCHANGED << notes, outbox, driveMap, syncMeta, pc, frame, ui, now >>

\* a device moves a note file to the trash
OtherTrash ==
    /\ CanChange(drive)
    /\ \E f \in DOMAIN drive.files :
        /\ ~Trashed(drive, f)
        /\ drive' = [Touch(drive, f) EXCEPT !.files[f] = Spread(@, [trashed |-> TRUE])]
    /\ hist' = Elsewhere
    /\ UNCHANGED << notes, outbox, driveMap, syncMeta, pc, frame, ui, now >>

\* appProperties of a file that is not tagged as a note file: none, another
\* kind, or kind 'note' without noteId
Untagged == {None, [kind |-> "settings", noteId |-> 1], [kind |-> "note"]}

\* a client writes a file without the note tags into the folder; its body is
\* a record that would merge as note 1 if it were read
OtherUntagged ==
    /\ CanCreate(drive)
    /\ \E props \in Untagged :
        drive' = createJsonFileMultipart(drive, props, OtherNote(1, MaxText, MaxTs))
    /\ hist' = Elsewhere
    /\ UNCHANGED << notes, outbox, driveMap, syncMeta, pc, frame, ui, now >>

\* ------------------------------------------------------------ specification
EditStep ==
    \/ OnNewPut \/ OnNewQueue
    \/ OnSaveGet \/ OnSavePut \/ OnSaveQueue
    \/ OnDeleteGet \/ OnDeletePut \/ OnDeleteQueue

PushStep(p) ==
    \/ PushListOps(p) \/ PushNextOp(p) \/ PushDeleteOp(p)
    \/ UpsGetMap(p) \/ UpsFind(p) \/ UpsCreate(p) \/ UpsUpdate(p) \/ UpsPutMap(p)
    \/ DelGetMap(p) \/ DelFind(p) \/ DelRemote(p) \/ DelMap(p)
    \/ PushReturn(p)

PullStep(p) ==
    \/ PullEnsureCursor(p)
    \/ BootList(p) \/ BootFile(p) \/ BootDownload(p) \/ BootGetNote(p) \/ BootPutNote(p)
    \/ BootMap(p) \/ BootToken(p) \/ BootSetMeta(p)
    \/ PullList(p) \/ PullChange(p) \/ PullDownload(p) \/ PullGetNote(p) \/ PullPutNote(p)
    \/ PullMap(p) \/ PullSetMeta(p)

FlowStep(p) ==
    \/ PushStep(p) \/ PullStep(p)
    \/ SyncSetLast(p) \/ SyncDone(p) \/ SyncCatch(p)

\* no handler of the page is in flight
Quiet == ~InFlight /\ ui.pc = "idle"

\* One device and the other devices of its user, one handler at a time: the
\* user edits and presses Sync while nothing else runs, the other devices
\* write to Drive between this device's syncs, and the page can be closed at
\* every await.
Next ==
    \/ ~InFlight /\ hist.nNotes < SerialNotes /\ OnNewPut
    \/ ~InFlight /\ OnNewQueue
    \/ ~InFlight /\ OnSaveGet
    \/ ~InFlight /\ OnSavePut
    \/ ~InFlight /\ OnSaveQueue
    \/ ~InFlight /\ OnDeleteGet
    \/ ~InFlight /\ OnDeletePut
    \/ ~InFlight /\ OnDeleteQueue
    \/ Quiet /\ OnSync(1)
    \/ FlowStep(1)
    \/ Crash
    \/ Quiet /\ hist.nNotes < SerialNotes /\ OtherCreate
    \/ Quiet /\ OtherUpdate
    \/ Quiet /\ OtherDelete

Spec == Init /\ [][Next]_vars

\* ------------------------------------------------------- the pull at large
\* A device that only reads: its user writes on the other devices, up to
\* MaxNotes notes, and presses Sync here; the outbox stays empty, so a sync is
\* its pull.
NextPull ==
    \/ Quiet /\ OnSync(1)
    \/ PushListOps(1)
    \/ PushReturn(1)
    \/ PullStep(1)
    \/ SyncSetLast(1)
    \/ SyncDone(1)
    \/ SyncCatch(1)
    \/ Crash
    \/ Quiet /\ OtherCreate
    \/ Quiet /\ OtherUpdate
    \/ Quiet /\ OtherDelete

SpecPull == Init /\ [][NextPull]_vars

\* ... and a note file can come to hold a body that is no note record
NextMalformed ==
    \/ NextPull
    \/ Quiet /\ OtherCorrupt

SpecMalformed == Init /\ [][NextMalformed]_vars

\* ... and files are deleted, trashed, or written without the note tags
NextSkip ==
    \/ Quiet /\ OnSync(1)
    \/ PushListOps(1)
    \/ PushReturn(1)
    \/ PullStep(1)
    \/ SyncSetLast(1)
    \/ SyncDone(1)
    \/ SyncCatch(1)
    \/ Crash
    \/ Quiet /\ OtherCreate
    \/ Quiet /\ OtherDelete
    \/ Quiet /\ OtherTrash
    \/ Quiet /\ OtherUntagged

SpecSkip == Init /\ [][NextSkip]_vars

\* ... and a note whose file was deleted is uploaded again by a device
NextRemap ==
    \/ NextPull
    \/ Quiet /\ OtherReupload

SpecRemap == Init /\ [][NextRemap]_vars

\* ... and the other devices upload while a sync is in flight here
NextBoundary ==
    \/ Quiet /\ OnSync(1)
    \/ PushListOps(1)
    \/ PushReturn(1)
    \/ PullStep(1)
    \/ SyncSetLast(1)
    \/ SyncDone(1)
    \/ SyncCatch(1)
    \/ Crash
    \/ OtherCreate
    \/ OtherUpdate

SpecBoundary == Init /\ [][NextBoundary]_vars

\* ------------------------------------------------------ create and delete
\* One device alone: its user creates notes, up to MaxNotes, deletes them and
\* presses Sync; nothing on Drive wins a merge, so the pull writes no note.
NextRecreate ==
    \/ ~InFlight /\ OnNewPut
    \/ ~InFlight /\ OnNewQueue
    \/ ~InFlight /\ OnDeleteGet
    \/ ~InFlight /\ OnDeletePut
    \/ ~InFlight /\ OnDeleteQueue
    \/ Quiet /\ OnSync(1)
    \/ PushStep(1)
    \/ PullEnsureCursor(1)
    \/ BootList(1)
    \/ BootFile(1)
    \/ BootDownload(1)
    \/ BootGetNote(1)
    \/ BootMap(1)
    \/ BootToken(1)
    \/ BootSetMeta(1)
    \/ PullList(1)
    \/ PullChange(1)
    \/ PullDownload(1)
    \/ PullGetNote(1)
    \/ PullMap(1)
    \/ PullSetMeta(1)
    \/ SyncSetLast(1)
    \/ SyncDone(1)
    \/ SyncCatch(1)
    \/ Crash

SpecRecreate == Init /\ [][NextRecreate]_vars

\* ------------------------------------------------------------ a device alone
\* One device alone: its user creates, saves and deletes a note and presses
\* Sync; every change on Drive is one of its own pushes, and no merge is won
\* by the remote side, so the pull writes no note.
NextAlone ==
    \/ ~InFlight /\ hist.nNotes < SerialNotes /\ OnNewPut
    \/ ~InFlight /\ OnNewQueue
    \/ ~InFlight /\ OnSaveGet
    \/ ~InFlight /\ OnSavePut
    \/ ~InFlight /\ OnSaveQueue
    \/ ~InFlight /\ OnDeleteGet
    \/ ~InFlight /\ OnDeletePut
    \/ ~InFlight /\ OnDeleteQueue
    \/ Quiet /\ OnSync(1)
    \/ PushStep(1)
    \/ PullEnsureCursor(1)
    \/ BootList(1)
    \/ BootFile(1)
    \/ BootDownload(1)
    \/ BootGetNote(1)
    \/ BootMap(1)
    \/ BootToken(1)
    \/ BootSetMeta(1)
    \/ PullList(1)
    \/ PullChange(1)
    \/ PullDownload(1)
    \/ PullGetNote(1)
    \/ PullMap(1)
    \/ PullSetMeta(1)
    \/ SyncSetLast(1)
    \/ SyncDone(1)
    \/ SyncCatch(1)
    \/ Crash

SpecAlone == Init /\ [][NextAlone]_vars

\* ------------------------------------------------------- Sync pressed twice
\* onSync has no test of a sync in flight and the button stays enabled, so a
\* click while syncNow awaits starts a second syncNow on the same stores.
\* The user creates a note and clicks Sync, also while a sync is in flight
\* (the flow of such a click is flow 2).  The flows are followed up to the
\* return of pushOutbox.
OverlapStep(p) ==
    \/ ui.pc = "idle" /\ (p = 2 => pc[1] # "idle") /\ OnSync(p)
    \/ PushListOps(p) \/ PushNextOp(p) \/ PushDeleteOp(p)
    \/ UpsGetMap(p) \/ UpsFind(p) \/ UpsCreate(p) \/ UpsUpdate(p) \/ UpsPutMap(p)
    \/ PushReturn(p)
    \/ SyncCatch(p)

NextOverlap ==
    \/ ~InFlight /\ hist.nNotes < SerialNotes /\ OnNewPut
    \/ ~InFlight /\ OnNewQueue
    \/ \E p \in Flows : OverlapStep(p)
    \/ Crash

SpecOverlap == Init /\ [][NextOverlap]_vars

\* ------------------------------------------------ pushOutbox on any outbox
\* pushOutbox over the stores as it can find them: up to two queued upserts,
\* each for a note that is stored or for one whose record is not there (no
\* handler here removes a note record; the database can hold such an op after
\* its notes store was emptied by other means).  The flow ends where
\* pushOutbox returns.
StoredNote(n) ==
    [noteId |-> n, title |-> 0, body |-> 0, updatedAtMs |-> 1, deletedAtMs |-> Null]

QueuedUpsert(id, n) == [opId |-> id, type |-> "upsert", noteId |-> n, queuedAtMs |-> 1]

InitMoot ==
    /\ notes \in {None, putNote(None, StoredNote(1)), putNote(None, StoredNote(2)),
                  putNote(putNote(None, StoredNote(1)), StoredNote(2))}
    /\ outbox \in {Put(None, 1, QueuedUpsert(1, n)) : n \in NoteIds}
                \cup {Put(Put(None, 1, QueuedUpsert(1, n)), 2, QueuedUpsert(2, m)) : n, m \in NoteIds}
    /\ driveMap = None
    /\ syncMeta = None
    /\ drive = EmptyDrive
    /\ pc = [p \in Flows |-> "idle"]
    /\ frame = [p \in Flows |-> IdleFrame]
    /\ ui = IdleUi
    /\ now = 1
    /\ hist = [InitHist EXCEPT !.nNotes = MaxNotes, !.nOps = Cardinality(DOMAIN outbox)]

NextMoot ==
    \/ Quiet /\ OnSync(1)
    \/ PushListOps(1)
    \/ PushNextOp(1)
    \/ PushMoot(1)
    \/ UpsGetMap(1)
    \/ UpsFind(1)
    \/ UpsCreate(1)
    \/ UpsUpdate(1)
    \/ UpsPutMap(1)
    \/ PushDeleteOp(1)
    \/ PushReturn(1)
    \/ SyncCatch(1)
    \/ Crash

SpecMoot == InitMoot /\ [][NextMoot]_vars

\* -------------------------------------------- pushOutbox and the index order
\* pushOutbox over any outbox of upserts for one stored note: createId draws
\* the op ids at random, so the order of the ids says nothing about the order
\* in which the ops were queued.  The flow ends where pushOutbox returns.
InitOrder ==
    /\ notes = putNote(None, StoredNote(1))
    /\ outbox \in {[id \in S |-> [QueuedUpsert(id, 1) EXCEPT !.queuedAtMs = t[id]]] :
                      S \in SUBSET OpIds \ {{}}, t \in [OpIds -> Times]}
    /\ driveMap = None
    /\ syncMeta = None
    /\ drive = EmptyDrive
    /\ pc = [p \in Flows |-> "idle"]
    /\ frame = [p \in Flows |-> IdleFrame]
    /\ ui = IdleUi
    /\ now = MaxTs
    /\ hist = [InitHist EXCEPT !.nNotes = 1, !.nOps = MaxOps]

NextOrder ==
    \/ Quiet /\ OnSync(1)
    \/ PushListOps(1)
    \/ PushNextOp(1)
    \/ UpsGetMap(1)
    \/ UpsFind(1)
    \/ UpsCreate(1)
    \/ UpsUpdate(1)
    \/ UpsPutMap(1)
    \/ PushDeleteOp(1)
    \/ PushReturn(1)
    \/ SyncCatch(1)
    \/ Crash

SpecOrder == InitOrder /\ [][NextOrder]_vars

\* ------------------------------------------------------ retrying syncNow
\* syncNow retried for as long as it takes, from the point on where no Drive
\* request is rejected for a transient or an auth error.  The stores are as
\* the handlers can leave them: note 1 live or soft-deleted with its ops
\* queued; its file never uploaded, uploaded and mapped, uploaded with the
\* mapping not stored, or uploaded, mapped and then deleted by another device;
\* a cursor stored or not.
DeletedNote(n) == [StoredNote(n) EXCEPT !.deletedAtMs = 1]
QueuedDelete(id, n) == [opId |-> id, type |-> "delete", noteId |-> n, queuedAtMs |-> 1]
Uploaded == createJsonFileMultipart(EmptyDrive, NoteProps(1), StoredNote(1))
MappedTo(f) == Put(None, 1, [noteId |-> 1, driveFileId |-> f,
                             md5 |-> Md5(JSONstringify(StoredNote(1)))])

InitDrain ==
    /\ \E local \in {<< StoredNote(1), Put(None, 1, QueuedUpsert(1, 1)) >>,
                     << StoredNote(1), Put(Put(None, 1, QueuedUpsert(1, 1)), 2, QueuedUpsert(2, 1)) >>,
                     << DeletedNote(1), Put(None, 1, QueuedDelete(1, 1)) >>,
                     << DeletedNote(1), Put(Put(None, 1, QueuedUpsert(1, 1)), 2, QueuedDelete(2, 1)) >>} :
        /\ notes = putNote(None, local[1])
        /\ outbox = local[2]
    /\ \E remote \in {<< EmptyDrive, None >>,
                      << Uploaded, MappedTo(1) >>,
                      << Uploaded, None >>,
                      << deleteFile(Uploaded, 1), MappedTo(1) >>} :
        /\ drive = remote[1]
        /\ driveMap = remote[2]
    /\ syncMeta \in {None, Put(None, CursorKey, getStartPageToken(EmptyDrive))}
    /\ pc = [p \in Flows |-> "idle"]
    /\ frame = [p \in Flows |-> IdleFrame]
    /\ ui = IdleUi
    /\ now = 1
    /\ hist = [InitHist EXCEPT !.nNotes = 1, !.nOps = Cardinality(DOMAIN outbox)]

\* no Drive request of the step is rejected, except with not-found
NoTransientError == pc'[1] = "failed" => frame'[1].err = "notFound"

NextDrain ==
    \/ Quiet /\ OnSync(1)
    \/ PushStep(1) /\ NoTransientError
    \/ PullEnsureCursor(1) /\ NoTransientError
    \/ BootList(1) /\ NoTransientError
    \/ BootFile(1)
    \/ BootDownload(1) /\ NoTransientError
    \/ BootGetNote(1)
    \/ BootMap(1)
    \/ BootToken(1) /\ NoTransientError
    \/ BootSetMeta(1)
    \/ PullList(1) /\ NoTransientError
    \/ PullChange(1)
    \/ PullDownload(1) /\ NoTransientError
    \/ PullGetNote(1)
    \/ PullMap(1)
    \/ PullSetMeta(1)
    \/ SyncSetLast(1)
    \/ SyncDone(1)
    \/ SyncCatch(1)

\* the caller keeps retrying and every step in flight is taken
SpecDrain == InitDrain /\ [][NextDrain]_vars /\ WF_vars(NextDrain)

\* ------------------------------------------------- saving during a sync
\* The handlers of the page run on one thread and interleave at their
\* awaits: the user saves note 1 while a sync is in flight.  The note was
\* uploaded and mapped, the cursor stored, and another device has since
\* uploaded a version of it.
InitRace ==
    /\ notes = putNote(None, StoredNote(1))
    /\ outbox = None
    /\ driveMap = MappedTo(1)
    /\ \E t \in Times, text \in Texts :
        drive = updateJsonFileMultipart(Uploaded, 1, NoteProps(1), OtherNote(1, text, t))
    /\ syncMeta = Put(None, CursorKey, getStartPageToken(Uploaded))
    /\ pc = [p \in Flows |-> "idle"]
    /\ frame = [p \in Flows |-> IdleFrame]
    /\ ui = IdleUi
    /\ now = 1
    /\ hist = [InitHist EXCEPT !.nNotes = 1]

NextRace ==
    \/ OnSaveGet
    \/ OnSavePut
    \/ OnSaveQueue
    \/ Quiet /\ OnSync(1)
    \/ PushListOps(1)
    \/ PushNextOp(1)
    \/ UpsGetMap(1)
    \/ UpsUpdate(1)
    \/ UpsPutMap(1)
    \/ PushDeleteOp(1)
    \/ PushReturn(1)
    \/ PullEnsureCursor(1)
    \/ PullList(1)
    \/ PullChange(1)
    \/ PullDownload(1)
    \/ PullGetNote(1)
    \/ PullPutNote(1)
    \/ PullMap(1)
    \/ PullSetMeta(1)
    \/ SyncSetLast(1)
    \/ SyncDone(1)
    \/ SyncCatch(1)

SpecRace == InitRace /\ [][NextRace]_vars

\* ------------------------------------------------ the pages of pullChanges
\* pullChanges with a first response of any declared shape in hand
\* ({changes, newStartPageToken?, nextPageToken?}, here without entries), over
\* a Drive that holds up to two note files of other devices; the pages that
\* follow a continuation token are Drive's.
RemoteFiles ==
    LET one == createJsonFileMultipart(EmptyDrive, NoteProps(1), OtherNote(1, 0, 1))
    IN  {EmptyDrive, one, createJsonFileMultipart(one, NoteProps(2), OtherNote(2, 0, 1))}

InitPage ==
    /\ drive \in RemoteFiles
    /\ \E c \in 1..(drive.seq + 1), next \in 0..drive.seq, start \in 0..(drive.seq + 1) :
        /\ syncMeta = Put(None, CursorKey, c)
        /\ frame = [p \in Flows |->
                        IF p = 1
                        THEN [IdleFrame EXCEPT
                                !.cursor = c, !.k = 1, !.result = [pushed |-> 0],
                                !.data = [changes |-> << >>, nextPageToken |-> next,
                                          newStartPageToken |-> start]]
                        ELSE IdleFrame]
    /\ pc = [p \in Flows |-> IF p = 1 THEN "pull_change" ELSE "idle"]
    /\ notes = None
    /\ outbox = None
    /\ driveMap = None
    /\ ui = IdleUi
    /\ now = 1
    /\ hist = [InitHist EXCEPT !.nNotes = MaxNotes]

NextPage ==
    \/ PullList(1)
    \/ PullChange(1)
    \/ PullDownload(1)
    \/ PullGetNote(1)
    \/ PullPutNote(1)
    \/ PullMap(1)
    \/ PullSetMeta(1)

SpecPage == InitPage /\ [][NextPage]_vars

\* ------------------------------------------------- the resolver on its own
\* note records as they can be stored or downloaded: written by this
\* application, or by a client that writes only some of the fields
NoteValues ==
    [noteId : {1}, title : Texts, body : Texts,
     updatedAtMs : 0..MaxTs, deletedAtMs : 0..MaxTs]
    \cup [noteId : {1}, title : Texts]
    \cup [noteId : {1}, title : Texts, updatedAtMs : 0..MaxTs]

\* a pull has downloaded any remote note and is about to read the local one,
\* which is any note or none
InitMerge ==
    /\ notes \in {None} \cup {putNote(None, l) : l \in NoteValues}
    /\ \E r \in NoteValues :
        /\ frame = [p \in Flows |->
                        IF p = 1 THEN [IdleFrame EXCEPT !.remoteNote = r, !.fileId = 1]
                        ELSE IdleFrame]
        /\ drive = createJsonFileMultipart(EmptyDrive, NoteProps(r.noteId), r)
    /\ pc = [p \in Flows |-> IF p = 1 THEN "pull_getNote" ELSE "idle"]
    /\ outbox = None
    /\ driveMap = None
    /\ syncMeta = None
    /\ ui = IdleUi
    /\ now = 1
    /\ hist = [InitHist EXCEPT !.nNotes = 1]

NextMerge == PullGetNote(1) \/ PullPutNote(1)

SpecMerge == InitMerge /\ [][NextMerge]_vars

\* ------------------------------------------------------------------ claims
\* the files on Drive tagged with a note id
FilesOf(n) == {f \in DOMAIN drive.files : Field(drive.files[f].appProperties, "noteId") = n}

\* the flow stands inside the processing of an operation of its snapshot
AtOp(p) == pc[p] \in PushPcs /\ frame[p].i \in 1..Len(frame[p].ops)

\* the ops that leave the outbox in a step do so in the step of a push that
\* holds one of these outcomes for the op it is processing
RemovedWith(outcomes) ==
    \A id \in (DOMAIN outbox) \ (DOMAIN outbox') :
        \E p \in Flows : AtOp(p) /\ CurOp(p).opId = id /\ frame[p].effect \in outcomes

\* C1 as stated: an op is removed from the outbox only when the remote create,
\* update or delete made for it has returned success (or not-found, for a
\* delete), or when the op was found moot.
C1_RemovedAfterRemoteCall ==
    [][RemovedWith({"created", "updated", "deleted", "notFound", "moot"})]_vars

\* C1, amended: an op is removed from the outbox only when the remote create,
\* update or delete made for it has returned success (or not-found, for a
\* delete), when the op was found moot, or when its delete found no remote
\* file to delete (neither a mapping nor a tagged file).
C1_RemovedAfterEffect ==
    [][RemovedWith({"created", "updated", "deleted", "notFound", "moot", "noFile"})]_vars

\* a delete went through without any file on Drive: the op is gone and Drive
\* has never been written
C1_RemovedWithoutFile ==
    /\ pc[1] = "push_op"
    /\ frame[1].i = 2
    /\ frame[1].pushed = 1
    /\ frame[1].ops[1].opId \notin DOMAIN outbox
    /\ drive.seq = 0

\* C2: at most one file on Drive is tagged with any note id, and a create is
\* only about to be issued for a note id that no file is tagged with.
C2_OneFilePerNote ==
    /\ \A n \in NoteIds : Cardinality(FilesOf(n)) <= 1
    /\ \A p \in Flows : pc[p] = "ups_create" => FilesOf(frame[p].note.noteId) = {}

\* the mapping was lost after a create (crash or lost response) and the tag
\* query led a later push to update the file it found
C2_RecoveredByTagQuery ==
    /\ pc[1] = "ups_putMap"
    /\ frame[1].effect = "updated"
    /\ Get(driveMap, frame[1].note.noteId) = None
    /\ FilesOf(frame[1].note.noteId) = {frame[1].fileId}

\* C3 as stated: after a successful syncNow that nothing disturbed, for every
\* note that had a queued upsert and a different remote version when the sync
\* began, the local note and the remote file both hold the pre-sync version
\* with the greater updatedAtMs.
C3_LastWriteWins ==
    \A p \in Flows :
        (pc[p] = "done" /\ ~hist.disturbed) =>
            \A n \in DOMAIN hist.pre :
                LET l == hist.pre[n].local
                    r == hist.pre[n].remote
                    w == IF TsOf(r) > TsOf(l) THEN r ELSE l
                IN  TsOf(r) # TsOf(l) =>
                        /\ Get(notes, n) = w
                        /\ \E f \in FilesOf(n) : JSONparse(drive.files[f].body).value = w

\* the inputs of the resolver in a state where a pull is about to apply it
MergeLocal == Get(notes, frame[1].remoteNote.noteId)
MergeRemote == frame[1].remoteNote
Merged == mergeLastWriteWins(MergeLocal, MergeRemote)

\* C4: the resolver returns winner remote exactly when there is no local note
\* or the remote updatedAtMs is strictly greater, and winner local otherwise;
\* on a tie it returns local with merged = local; the step that applies it
\* writes no store.
C4_Resolver ==
    [][pc[1] = "pull_getNote" =>
        /\ Merged.winner \in {"remote", "local"}
        /\ (Merged.winner = "remote") =
              (MergeLocal = None \/ TsOf(MergeRemote) > TsOf(MergeLocal))
        /\ (MergeLocal # None /\ TsOf(MergeRemote) = TsOf(MergeLocal)) =>
              (Merged.winner = "local" /\ Merged.merged = MergeLocal)
        /\ MergeLocal = None => Merged.merged = MergeRemote
        /\ pc'[1] = (IF Merged.winner = "remote" THEN "pull_putNote" ELSE "pull_map")
        /\ UNCHANGED << notes, outbox, driveMap, syncMeta, drive >>]_vars

\* a tie between two different records was resolved: local kept, nothing written
C4_TieKeptLocal ==
    /\ pc[1] = "pull_map"
    /\ frame[1].pulled = 0
    /\ MergeLocal # None
    /\ MergeLocal # MergeRemote
    /\ TsOf(MergeLocal) = TsOf(MergeRemote)

Max(a, b) == IF a > b THEN a ELSE b

\* C5: with a local note L and a remote note R of the same id, the merged
\* record carries max(L.updatedAtMs, R.updatedAtMs), and on a tie it is L.
C5_MergedCarriesMax ==
    (pc[1] = "pull_getNote" /\ MergeLocal # None) =>
        /\ TsOf(Merged.merged) = Max(TsOf(MergeLocal), TsOf(MergeRemote))
        /\ TsOf(MergeLocal) = TsOf(MergeRemote) => Merged.merged = MergeLocal

\* remote won against an existing local note: the merged record about to be
\* written carries the remote, greater, timestamp
C5_RemoteWonOverLocal ==
    /\ pc[1] = "pull_putNote"
    /\ MergeLocal # None
    /\ TsOf(MergeRemote) > TsOf(MergeLocal)
    /\ TsOf(frame[1].merged) = TsOf(MergeRemote)

\* the op ids of a flow's outbox snapshot
SnapshotIds(p) == {frame[p].ops[j].opId : j \in 1..Len(frame[p].ops)}

\* the flow has left the push phase with its return value
AfterPush(p) == pc[p] \in PullPcs \cup {"sync_setLast", "done"}

\* C6: whenever a flow stands in the pull phase or after it, its push phase
\* has gone through the whole outbox snapshot (every op of it processed and
\* removed) and has returned; a sync that resolved returns the counts of the
\* two phases.
C6_PushBeforePull ==
    \A p \in Flows :
        /\ AfterPush(p) =>
              /\ frame[p].result # None
              /\ frame[p].result.pushed = frame[p].pushed
              /\ frame[p].i > Len(frame[p].ops)
              /\ SnapshotIds(p) \subseteq hist.done
              /\ SnapshotIds(p) \cap DOMAIN outbox = {}
        /\ pc[p] = "done" =>
              frame[p].result = [pushed |-> frame[p].pushed, pulled |-> frame[p].pulled]

\* a sync resolved after its push went through three ops and its pull ran
C6_PushedAllThenPulled ==
    /\ pc[1] = "done"
    /\ Len(frame[1].ops) = 3
    /\ frame[1].result = [pushed |-> 3, pulled |-> 0]
    /\ getMeta(syncMeta, CursorKey) # Null

\* C7: a flow that failed takes no further step but the caller's catch (no
\* retry, no pull after a failed push); the pull phase is entered only from
\* a push that returned; drive.lastSyncAtMs is written only by the last step
\* of a sync whose push and pull both returned, so in a failed sync it is what
\* it was when the sync began.
C7_FailurePropagates ==
    [][\A p \in Flows :
        /\ pc[p] = "failed" =>
              /\ pc'[p] \in {"failed", "idle"}
              /\ getMeta(syncMeta, LastSyncKey) = hist.lastSyncAtStart
              /\ UNCHANGED << notes, outbox, driveMap, syncMeta, drive >>
        /\ (pc'[p] \in PullPcs /\ pc[p] \notin PullPcs) =>
              (pc[p] = "push_op" /\ frame[p].i > Len(frame[p].ops))
        /\ pc'[p] = "sync_setLast" => pc[p] \in {"pull_setMeta", "sync_setLast"}
        /\ getMeta(syncMeta', LastSyncKey) # getMeta(syncMeta, LastSyncKey) =>
              \E q \in Flows :
                  /\ pc[q] = "sync_setLast"
                  /\ DOMAIN frame[q].result = {"pushed", "pulled"}]_vars

\* a push failed in a sync that began with a last-sync timestamp stored
C7_PushFailedAfterEarlierSync ==
    /\ pc[1] = "failed"
    /\ frame[1].result = None
    /\ frame[1].i \in 1..Len(frame[1].ops)
    /\ hist.lastSyncAtStart # Null
    /\ getMeta(syncMeta, LastSyncKey) = hist.lastSyncAtStart

\* the push of the flow failed (its error is with the caller)
PushFailed(p) == pc[p] = "failed" /\ frame[p].result = None

\* C8: when a push has failed while processing the k-th op of its snapshot,
\* the ops before k are removed from the outbox, and op k and every later op
\* are in the outbox as they were queued.
C8_FailedPushKeepsRest ==
    \A p \in Flows :
        PushFailed(p) =>
            LET ops == frame[p].ops
                k == frame[p].i
            IN  /\ k \in 1..Len(ops)
                /\ \A j \in 1..Len(ops) :
                      IF j < k THEN ops[j].opId \notin DOMAIN outbox
                      ELSE Get(outbox, ops[j].opId) = ops[j]

\* a push failed at the second of three ops
C8_FailedAtSecondOfThree ==
    /\ PushFailed(1)
    /\ Len(frame[1].ops) = 3
    /\ frame[1].i = 2
    /\ frame[1].ops[1].opId \notin DOMAIN outbox

\* C9: a push re-invoked after one that stopped with N ops removed and the
\* others left (no edit in between) takes exactly the ops left as its
\* snapshot, makes no Drive call for any of the N removed, and when it has
\* returned every op left has been processed and removed.
C9_ResumesWithRest ==
    \A p \in Flows :
        (hist.left # {} /\ pc[p] \notin {"idle", "push_listOps"}) =>
            /\ SnapshotIds(p) = hist.left
            /\ hist.called \subseteq hist.left
            /\ hist.called \cap hist.doneBefore = {}
            /\ AfterPush(p) =>
                  (hist.left \subseteq hist.done /\ frame[p].pushed = Cardinality(hist.left))

\* a resumed push has returned after it processed the two ops left of three
C9_ResumedPushReturned ==
    /\ Cardinality(hist.left) = 2
    /\ hist.doneBefore # {}
    /\ pc[1] = "pull_ensureCursor"
    /\ hist.called = hist.left

\* C10: a push that begins after a completed push with no edit in between
\* finds no op, makes no Drive call, and its steps leave Drive and the
\* driveMap store as they are.
C10_SecondPushIdle ==
    [][\A p \in Flows :
        (hist.second /\ pc[p] \in PushPcs) =>
            /\ pc[p] # "push_listOps" => frame[p].ops = << >>
            /\ hist.called = {}
            /\ hist'.called = {}
            /\ UNCHANGED << drive, driveMap >>]_vars

\* a second push has returned, after a first one that created a file
C10_SecondPushReturned ==
    /\ hist.second
    /\ pc[1] = "pull_ensureCursor"
    /\ frame[1].result = [pushed |-> 0]
    /\ DOMAIN drive.files # {}
    /\ DOMAIN driveMap # {}

\* -------------------------------------------------------------- pull claims
\* the version of the file the flow stands at
Version(p) == << frame[p].fileId, drive.changeSeq[frame[p].fileId] >>

\* C11: a change entry that an earlier pull took through the merge, with no
\* edit here or on Drive since, is not written again: the pull stands before
\* putNote only for a version no earlier pull has merged, where the remote
\* note is strictly newer than the local one or there is no local one, and
\* the count it returns is at most the number of versions it met first.
C11_IdempotentPull ==
    \A p \in Flows :
        /\ pc[p] = "pull_putNote" =>
              /\ Version(p) \notin hist.seen
              /\ LET local == Get(notes, frame[p].remoteNote.noteId)
                 IN  local = None \/ TsOf(frame[p].remoteNote) > TsOf(local)
        /\ pc[p] = "sync_setLast" =>
              frame[p].result.pulled <= Cardinality(hist.got \ hist.seen)

\* a pull received again a page an earlier pull had processed, and returned 0
C11_PageDeliveredTwice ==
    /\ pc[1] = "sync_setLast"
    /\ hist.got # {}
    /\ hist.got \subseteq hist.seen
    /\ frame[1].result.pulled = 0
    /\ notes # None

\* C12: a bootstrap that was interrupted before the cursor was stored and run
\* again over the same remote state ends, when it stores the cursor, with the
\* notes and the mappings that one uninterrupted bootstrap yields, every
\* record under the noteId it carries.
C12_BootstrapIdempotent ==
    \A p \in Flows :
        (pc[p] = "pull_list" /\ frame[p].data = None /\ hist.boot # None) =>
            /\ notes = hist.boot.notes
            /\ driveMap = hist.boot.driveMap
            /\ \A n \in DOMAIN notes : notes[n].noteId = n
            /\ \A n \in DOMAIN driveMap : driveMap[n].noteId = n

\* the second attempt of a bootstrap over two remote notes has stored the cursor
C12_SecondAttemptCompleted ==
    /\ pc[1] = "pull_list"
    /\ hist.boot # None
    /\ hist.boot.tries = 2
    /\ Cardinality(DOMAIN notes) = 2
    /\ Cardinality(DOMAIN driveMap) = 2

\* the change cursor as stored
Cursor == getMeta(syncMeta, CursorKey)

\* C13: a pull lists all note files exactly when no cursor is stored; the
\* bootstrap that completes stores a cursor; a stored cursor stays stored, so
\* every later pull goes to the change feed without a full listing; and a pull
\* that finds the remote store as it was when the cursor was stored (the
\* cursor is the token after the latest change) returns pulled = 0.
C13_BootstrapThenIncremental ==
    [][ /\ (pc[1] = "pull_ensureCursor" /\ pc'[1] # "idle") =>
                pc'[1] = IF Cursor = Null THEN "boot_list" ELSE "pull_list"
        /\ (pc[1] # "boot_list" /\ pc'[1] = "boot_list") => Cursor = Null
        /\ (pc[1] = "boot_setMeta" /\ pc'[1] # "idle") => Cursor' # Null
        /\ Cursor # Null => Cursor' # Null
        /\ (pc[1] = "pull_setMeta" /\ pc'[1] = "sync_setLast" /\ Cursor = getStartPageToken(drive)) =>
                frame'[1].result.pulled = 0
      ]_vars

\* a sync after a completed one found the cursor and nothing new on Drive,
\* while there are notes it pulled before
C13_LaterPullReturnedZero ==
    /\ pc[1] = "sync_setLast"
    /\ getMeta(syncMeta, LastSyncKey) # Null
    /\ Cursor = getStartPageToken(drive)
    /\ hist.got = {}
    /\ hist.boot = None
    /\ frame[1].result.pulled = 0
    /\ notes # None

\* the files whose change the feed lists from a token on, over all its pages
Pending(d, token) == {f \in FileIds : d.changeSeq[f] >= token}

\* C14: a step in which a call of the pull fails leaves syncNow with the
\* error and stores nothing: during the bootstrap no cursor is stored then,
\* and in the incremental state the stored cursor is the one the pull began
\* with, not after the token of the page it failed in, so that the changes of
\* that page and of the later ones are listed again from it; the handler that
\* catches the error stores no cursor either.
C14_FailedPullKeepsCursor ==
    [][ /\ (pc[1] \in PullPcs /\ pc'[1] = "failed") =>
              /\ frame'[1].err # ""
              /\ Cursor' = Cursor
              /\ pc[1] \in BootPcs => Cursor' = Null
              /\ pc[1] \notin BootPcs =>
                    /\ Cursor' # Null
                    /\ Cursor' <= frame[1].cursor
                    /\ Pending(drive, frame[1].cursor) \subseteq Pending(drive', Cursor')
        /\ pc[1] = "failed" => Cursor' = Cursor
      ]_vars

\* the pull failed on its second page: the entry of the first page is merged
\* and the stored cursor is still the token the pull began with
C14_FailedOnSecondPage ==
    /\ pc[1] = "failed"
    /\ frame[1].err = "rejected"
    /\ hist.got # {}
    /\ Cursor # Null
    /\ \A v \in hist.got : Cursor <= v[2]

\* C15: the number pullChanges returns is the number of notes this invocation
\* wrote because the remote version won the merge, in the bootstrap listing
\* of ensureCursor as well as in the change entries.
C15_PulledCountsWrites ==
    \A p \in Flows :
        pc[p] = "sync_setLast" => frame[p].result.pulled = hist.wrote

\* C16: a downloaded body that is no note record does not abort the pull: no
\* pull ends with the error of reading such a body.
C16_MalformedSkipped ==
    \A p \in Flows : pc[p] = "failed" => frame[p].err \notin {"TypeError", "DataError"}

\* ------------------------------------------------------- push claims, again
\* C17: in pushDelete a remote delete answered with not-found goes on as a
\* success does: the mapping is removed, then the op is removed and counted;
\* a remote delete that fails otherwise leaves pushDelete with that error, the
\* mapping and the op in place.
C17_NotFoundIsSuccess ==
    [][ /\ (pc[1] = "del_remote" /\ pc'[1] = "failed") =>
              /\ frame'[1].err \in RemoteErrors
              /\ driveMap' = driveMap
              /\ outbox' = outbox
              /\ CurOp(1).opId \in DOMAIN outbox'
        /\ (pc[1] = "del_remote" /\ frame[1].fileId \notin DOMAIN drive.files /\ pc'[1] = "del_map") =>
              /\ frame'[1].effect = "notFound"
              /\ drive' = drive
        /\ (pc[1] = "del_map" /\ frame[1].effect = "notFound" /\ pc'[1] # "idle") =>
              /\ pc'[1] = "push_deleteOp"
              /\ frame[1].noteId \notin DOMAIN driveMap'
        /\ (pc[1] = "push_deleteOp" /\ frame[1].effect = "notFound" /\ pc'[1] # "idle") =>
              /\ pc'[1] = "push_op"
              /\ CurOp(1).opId \in DOMAIN outbox
              /\ CurOp(1).opId \notin DOMAIN outbox'
              /\ frame'[1].pushed = frame[1].pushed + 1
      ]_vars

\* the file of a mapped note was gone when pushDelete deleted it: the mapping
\* is removed and the op is about to be removed and counted
C17_DeleteAnsweredNotFound ==
    /\ pc[1] = "push_deleteOp"
    /\ frame[1].effect = "notFound"
    /\ frame[1].fileId # Null
    /\ frame[1].noteId \notin DOMAIN driveMap
    /\ CurOp(1).opId \in DOMAIN outbox

\* the ops of the flow's snapshot whose note is stored
Live(p) == {j \in 1..Len(frame[p].ops) : Get(notes, frame[p].ops[j].noteId) # None}

\* C18: an upsert whose note is not stored when pushOutbox comes to it is
\* removed from the outbox without a Drive call and without an error, is not
\* counted, and the loop goes on with the next op: pushOutbox returns the
\* number of the other ops.
C18_MootDiscarded ==
    [][ /\ ( /\ pc[1] = "push_op" /\ frame[1].i <= Len(frame[1].ops)
             /\ CurOp(1).type = "upsert" /\ Get(notes, CurOp(1).noteId) = None
             /\ pc'[1] # "idle" ) => pc'[1] = "push_moot"
        /\ (pc[1] = "push_moot" /\ pc'[1] # "idle") =>
              /\ pc'[1] = "push_op"
              /\ frame'[1].i = frame[1].i + 1
              /\ frame'[1].pushed = frame[1].pushed
              /\ CurOp(1).opId \notin DOMAIN outbox'
              /\ CurOp(1).opId \notin hist'.called
              /\ drive' = drive
        /\ (pc[1] = "push_op" /\ pc'[1] = "pull_ensureCursor") =>
              frame'[1].result.pushed = Cardinality(Live(1))
      ]_vars

\* pushOutbox returned 1 for a snapshot of a moot op followed by a live one
C18_MootThenLive ==
    /\ pc[1] = "pull_ensureCursor"
    /\ Len(frame[1].ops) = 2
    /\ Live(1) = {2}
    /\ frame[1].result.pushed = 1
    /\ outbox = None
    /\ hist.called = {2}

C20_SyncSerialized ==
    Cardinality({p \in Flows : pc[p] # "idle"}) <= 1

\* ----------------------------------------------------- push claims, third
\* the file id the mapping of a note holds, or Null
MappedFile(n) == Field(Get(driveMap, n), "driveFileId")

\* C21: pushUpsert goes from the mapping to the update when the mapping holds
\* a file id and to the tag query when it does not; from the tag query to the
\* update of the file found, or to the create when nothing was found; a
\* create is only issued for a note without mapping and without tagged file;
\* and the mapping then stored for the note holds the id and the checksum of
\* the response of that create or update.
C21_CreateOrUpdate ==
    [][ /\ (pc[1] = "ups_getMap" /\ pc'[1] # "idle") =>
              LET f == MappedFile(frame[1].note.noteId)
              IN  IF f # Null
                  THEN pc'[1] = "ups_update" /\ frame'[1].fileId = f
                  ELSE pc'[1] = "ups_find"
        /\ (pc[1] = "ups_find" /\ pc'[1] \notin {"idle", "failed"}) =>
              LET found == FilesOf(frame[1].note.noteId)
              IN  IF found # {}
                  THEN pc'[1] = "ups_update" /\ frame'[1].fileId \in found
                  ELSE pc'[1] = "ups_create"
        /\ (pc[1] = "ups_create") =>
              /\ MappedFile(frame[1].note.noteId) = Null
              /\ FilesOf(frame[1].note.noteId) = {}
        /\ (pc[1] \in PushPcs /\ DOMAIN drive'.files \ DOMAIN drive.files # {}) =>
              pc[1] = "ups_create"
        /\ (pc[1] \in {"ups_create", "ups_update"} /\ pc'[1] = "ups_putMap") =>
              LET f == frame'[1].resp.id
              IN  /\ IF pc[1] = "ups_update" THEN f = frame[1].fileId
                     ELSE f \notin DOMAIN drive.files
                  /\ f \in DOMAIN drive'.files
                  /\ drive'.files[f].body = JSONstringify(frame[1].note)
                  /\ frame'[1].resp.md5Checksum = Md5(drive'.files[f].body)
        /\ (pc[1] = "ups_putMap" /\ pc'[1] # "idle") =>
              /\ pc'[1] = "push_deleteOp"
              /\ driveMap' = Put(driveMap, frame[1].note.noteId,
                                 [noteId |-> frame[1].note.noteId,
                                  driveFileId |-> frame[1].resp.id,
                                  md5 |-> frame[1].resp.md5Checksum])
      ]_vars

\* pushUpsert updated the file its mapping named and stored the response
C21_UpdatedThroughMapping ==
    /\ pc[1] = "push_deleteOp"
    /\ frame[1].effect = "updated"
    /\ hist.done # {}
    /\ Get(driveMap, frame[1].note.noteId) =
          [noteId |-> frame[1].note.noteId, driveFileId |-> frame[1].fileId,
           md5 |-> Md5(JSONstringify(frame[1].note))]

\* the flow is at an upsert op of its snapshot whose note is tombstoned
AtTombstonedUpsert(p) ==
    /\ pc[p] \in PushPcs \ {"push_listOps"}
    /\ frame[p].i <= Len(frame[p].ops)
    /\ CurOp(p).type = "upsert"
    /\ Get(notes, CurOp(p).noteId) # None
    /\ notes[CurOp(p).noteId].deletedAtMs # Null

UpsertPcs == {"ups_getMap", "ups_find", "ups_create", "ups_update", "ups_putMap"}

\* C22: an upsert whose note is tombstoned when pushOutbox comes to it takes
\* the path of pushDelete for that note: the flow is at no step of pushUpsert
\* for it, a file found for the note is deleted, the mapping is removed, the
\* op is removed and counted; no note handed to pushUpsert and no body on
\* Drive carries deletedAtMs.
C22_TombstonedUpsertDeletes ==
    [][ /\ (AtTombstonedUpsert(1) /\ pc[1] = "push_op" /\ pc'[1] # "idle") =>
              /\ pc'[1] = "del_getMap"
              /\ frame'[1].noteId = CurOp(1).noteId
        /\ AtTombstonedUpsert(1) => pc[1] \notin UpsertPcs
        /\ (AtTombstonedUpsert(1) /\ pc[1] = "del_remote" /\ pc'[1] = "del_map") =>
              frame[1].fileId \notin DOMAIN drive'.files
        /\ (AtTombstonedUpsert(1) /\ pc[1] = "del_map" /\ pc'[1] # "idle") =>
              /\ pc'[1] = "push_deleteOp"
              /\ Get(driveMap', CurOp(1).noteId) = None
        /\ (AtTombstonedUpsert(1) /\ pc[1] = "push_deleteOp" /\ pc'[1] # "idle") =>
              /\ CurOp(1).opId \notin DOMAIN outbox'
              /\ frame'[1].pushed = frame[1].pushed + 1
              /\ drive' = drive
        /\ \A p \in Flows : pc[p] \in UpsertPcs => frame[p].note.deletedAtMs = Null
        /\ \A f \in DOMAIN drive.files : JSONparse(drive.files[f].body).value.deletedAtMs = Null
      ]_vars

\* an upsert queued before the note was deleted has deleted the note's file
\* and removed the mapping
C22_UpsertOfDeletedNote ==
    /\ AtTombstonedUpsert(1)
    /\ pc[1] = "push_deleteOp"
    /\ frame[1].effect = "deleted"
    /\ Get(driveMap, CurOp(1).noteId) = None
    /\ FilesOf(CurOp(1).noteId) = {}

\* C23: pushDelete returns through deleteDriveMap whatever came before (the
\* file deleted, the file answered not-found, or no file found), and once it
\* has returned there is no mapping for its noteId.
C23_DeleteRemovesMapping ==
    \A p \in Flows :
        /\ pc[p] = "del_map" => frame[p].effect \in {"deleted", "notFound", "noFile"}
        /\ (pc[p] = "push_deleteOp" /\ frame[p].effect \in {"deleted", "notFound", "noFile"}) =>
              Get(driveMap, frame[p].noteId) = None

\* pushDelete returned for a delete op after deleting the note's file
C23_DeleteReturned ==
    /\ pc[1] = "push_deleteOp"
    /\ CurOp(1).type = "delete"
    /\ frame[1].effect = "deleted"
    /\ frame[1].fileId # Null
    /\ Get(driveMap, frame[1].noteId) = None
    /\ << frame[1].noteId, frame[1].fileId >> \in hist.old

\* C24: when pushOutbox makes a Drive call for an op of its snapshot, every
\* op of the snapshot with a smaller queuedAtMs has been processed to the end
\* and is out of the outbox; the snapshot is in ascending queuedAtMs order.
C24_DrainedInQueuedOrder ==
    \A p \in Flows :
        LET ops == frame[p].ops
        IN  /\ \A j, k \in 1..Len(ops) : j < k => ops[j].queuedAtMs <= ops[k].queuedAtMs
            /\ \A j, k \in 1..Len(ops) :
                  (pc[p] \in PushPcs /\ ops[k].opId \in hist.called
                   /\ ops[j].queuedAtMs < ops[k].queuedAtMs) =>
                      /\ ops[j].opId \in hist.done
                      /\ ops[j].opId \notin DOMAIN outbox

\* pushOutbox returned after three ops whose ids run against their queue times
C24_IdsAgainstTimes ==
    /\ pc[1] = "pull_ensureCursor"
    /\ Len(frame[1].ops) = 3
    /\ frame[1].ops[1].queuedAtMs < frame[1].ops[3].queuedAtMs
    /\ frame[1].ops[1].opId > frame[1].ops[3].opId
    /\ frame[1].result.pushed = 3
    /\ hist.called = OpIds
    /\ outbox = None

\* C25: an op carries no note state.  The body an upsert uploads is the note
\* as stored when the op is processed; every upsert of the snapshot whose
\* note is live is processed on its own: one upload that adds one change to
\* Drive, then the removal of that op alone, then the next op of the snapshot.
C25_OpIsTrigger ==
    [][ /\ \A id \in DOMAIN outbox : DOMAIN outbox[id] = {"opId", "type", "noteId", "queuedAtMs"}
        /\ (pc[1] \in {"ups_create", "ups_update"} /\ pc'[1] = "ups_putMap") =>
              /\ drive'.files[frame'[1].resp.id].body = JSONstringify(notes[CurOp(1).noteId])
              /\ drive'.seq = drive.seq + 1
        /\ (pc[1] = "push_deleteOp" /\ CurOp(1).type = "upsert" /\ pc'[1] # "idle"
            /\ notes[CurOp(1).noteId].deletedAtMs = Null) =>
              /\ frame[1].effect \in {"created", "updated"}
              /\ CurOp(1).opId \in hist.called
              /\ DOMAIN outbox' = DOMAIN outbox \ {CurOp(1).opId}
              /\ frame'[1].i = frame[1].i + 1
              /\ frame'[1].ops = frame[1].ops
        /\ (pc[1] = "push_op" /\ pc'[1] \in {"ups_getMap", "del_getMap", "push_moot"}) =>
              frame'[1].i = frame[1].i
      ]_vars

\* three upserts of one note, queued by onNew and two onSave, have each made
\* their own upload, the first with a note state newer than the op
C25_ThreeUploadsOfOneNote ==
    /\ pc[1] = "ups_putMap"
    /\ frame[1].i = 3
    /\ \A j \in 1..3 : frame[1].ops[j].type = "upsert" /\ frame[1].ops[j].noteId = 1
    /\ frame[1].ops[1].queuedAtMs < frame[1].note.updatedAtMs
    /\ frame[1].note.title # 0
    /\ drive.seq = 3
    /\ hist.done = {1, 2}
    /\ hist.doneBefore = {}

\* --------------------------------------------------- pull claims, second
\* every note file on Drive d has been taken through the merge: its note is
\* stored here in a version that is not older, and mapped
AllMerged(d) ==
    \A f \in DOMAIN d.files :
        (~NotANoteFile(d.files[f].appProperties) /\ JSONparse(d.files[f].body).ok) =>
            LET r == JSONparse(d.files[f].body).value
            IN  /\ Get(notes, r.noteId) # None
                /\ TsOf(notes[r.noteId]) >= TsOf(r)
                /\ MappedFile(r.noteId) # Null

\* C26: a cursor comes to be stored, where none was, only by the setMeta that
\* ends ensureCursor, and the flow stands at getStartPageToken and at that
\* setMeta only when every note file listed has been downloaded and merged;
\* an interrupted or failed bootstrap leaves no cursor.
C26_CursorAfterFullListing ==
    [][ /\ (Cursor = Null /\ Cursor' # Null) => (pc[1] = "boot_setMeta" /\ AllMerged(drive))
        /\ pc[1] \in {"boot_token", "boot_setMeta"} => (Cursor = Null /\ AllMerged(drive))
        /\ (pc[1] \in BootPcs /\ pc'[1] \in {"idle", "failed"}) => Cursor' = Null
      ]_vars

\* a bootstrap over two remote notes stored the cursor and the page was closed
\* before the sync ended
C26_CursorStoredThenClosed ==
    /\ pc[1] = "idle"
    /\ Cursor # Null
    /\ getMeta(syncMeta, LastSyncKey) = Null
    /\ Cardinality(DOMAIN notes) = 2
    /\ Cardinality(DOMAIN driveMap) = 2

\* C27: pullChanges writes the cursor in one step only, the one after the
\* entries of a page without nextPageToken, and that step ends the pull; it
\* writes the page's newStartPageToken or, without one, the page token of the
\* last request.  After the entries of a page with nextPageToken the next
\* request is made with that token and nothing is written.
C27_CursorWrittenOnce ==
    [][ /\ syncMeta' # syncMeta =>
              /\ pc[1] = "pull_setMeta"
              /\ frame[1].data.nextPageToken = Null
        /\ (pc[1] = "pull_setMeta" /\ pc'[1] # "idle") =>
              /\ pc'[1] = "sync_setLast"
              /\ Cursor' = IF frame[1].data.newStartPageToken # Null
                           THEN frame[1].data.newStartPageToken
                           ELSE frame[1].cursor
        /\ (pc[1] = "pull_change" /\ frame[1].k > Len(frame[1].data.changes) /\ pc'[1] # "idle") =>
              IF frame[1].data.nextPageToken # Null
              THEN /\ pc'[1] = "pull_list"
                   /\ frame'[1].cursor = frame[1].data.nextPageToken
                   /\ syncMeta' = syncMeta
              ELSE pc'[1] = "pull_setMeta" /\ frame'[1].cursor = frame[1].cursor
        /\ (pc[1] = "pull_list" /\ pc'[1] = "pull_change") =>
              /\ frame'[1].data = listChanges(drive, frame[1].cursor)
              /\ frame'[1].cursor = frame[1].cursor
      ]_vars

\* the pull followed continuation tokens over two pages and stored Drive's
\* new start token
C27_TwoPagesThenToken ==
    /\ pc[1] = "sync_setLast"
    /\ frame[1].result.pulled = 2
    /\ Cardinality(hist.got) = 2
    /\ Cursor = getStartPageToken(drive)

C29_MappedToProcessedFile ==
    [][ (pc[1] \in {"boot_map", "pull_map"} /\ pc'[1] \notin {"idle", "failed"}) =>
            LET n == frame[1].remoteNote.noteId
            IN  /\ Get(driveMap', n) # None
                /\ driveMap'[n].driveFileId = frame[1].fileId ]_vars

\* ------------------------------------------------------ the merge, again
\* C30: when the remote note wins against a stored local note, the record
\* handed to putNote has the fields of both; every field of the remote note
\* has the remote value and every field only the local note has keeps the
\* local value; that record is what putNote stores.
C30_RemoteOverlaysLocal ==
    [][ /\ (/\ pc[1] = "pull_getNote"
            /\ MergeLocal # None
            /\ TsOf(MergeRemote) > TsOf(MergeLocal))
           => /\ pc'[1] = "pull_putNote"
              /\ DOMAIN frame'[1].merged = (DOMAIN MergeLocal) \cup (DOMAIN MergeRemote)
              /\ \A f \in DOMAIN MergeRemote : frame'[1].merged[f] = MergeRemote[f]
              /\ \A f \in (DOMAIN MergeLocal) \ (DOMAIN MergeRemote) :
                    frame'[1].merged[f] = MergeLocal[f]
        /\ pc[1] = "pull_putNote" => notes' = Put(notes, frame[1].merged.noteId, frame[1].merged)
      ]_vars

\* a remote note without body won against a local note with one: the merged
\* record has the remote title and timestamp and the local body
C30_LocalBodyKept ==
    /\ pc[1] = "pull_putNote"
    /\ MergeLocal # None
    /\ "body" \in DOMAIN MergeLocal
    /\ "body" \notin DOMAIN MergeRemote
    /\ MergeLocal.body = 1
    /\ MergeRemote.title # MergeLocal.title
    /\ frame[1].merged.title = MergeRemote.title
    /\ frame[1].merged.body = MergeLocal.body
    /\ frame[1].merged.updatedAtMs = MergeRemote.updatedAtMs

\* ------------------------------------------------------ editing and syncing
\* C31: while no editing handler is running, every note the editing layer
\* wrote and no push has handled yet has a queued op of its type: before any
\* op was removed and any Drive file written, each stored note has an upsert
\* op if it is live and a delete op if it is soft-deleted.
C31_MutationHasOp ==
    (ui.pc = "idle" /\ hist.done = {} /\ drive.seq = 0) =>
        \A n \in DOMAIN notes :
            \E o \in DOMAIN outbox :
                /\ outbox[o].noteId = n
                /\ outbox[o].type = IF notes[n].deletedAtMs = Null THEN "upsert" ELSE "delete"

\* C32: on a device without edits, no step of a sync removes a stored note
\* or lowers its updatedAtMs, and a step that changes a stored note gives it
\* a strictly greater updatedAtMs.
C32_TimestampsNeverDecrease ==
    [][ \A n \in DOMAIN notes :
            /\ n \in DOMAIN notes'
            /\ TsOf(notes'[n]) >= TsOf(notes[n])
            /\ notes'[n] # notes[n] => TsOf(notes'[n]) > TsOf(notes[n]) ]_vars

\* an incremental pull has replaced a note pulled and mapped before by the
\* newer version of its file
C32_OlderNoteReplaced ==
    /\ pc[1] = "pull_map"
    /\ frame[1].pulled = 1
    /\ Cursor # Null
    /\ frame[1].remoteNote.noteId \in DOMAIN driveMap
    /\ driveMap[frame[1].remoteNote.noteId].driveFileId = frame[1].fileId
    /\ TsOf(notes[frame[1].remoteNote.noteId]) = MaxTs

\* C33: on a device whose pushes are the only changes on Drive, the pull
\* phase never comes to write a note: each step of it leaves the notes and
\* the outbox as they are, none leads to putNote, and the pull returns
\* pulled = 0.
C33_OwnPushNotPulledBack ==
    [][ pc[1] \in PullPcs =>
            /\ notes' = notes
            /\ outbox' = outbox
            /\ pc'[1] \notin {"boot_putNote", "pull_putNote"}
            /\ pc'[1] = "sync_setLast" => frame'[1].result.pulled = 0 ]_vars

\* an incremental pull has taken the file this sync's push uploaded through
\* the merge and returned 0
C33_OwnUploadMerged ==
    /\ pc[1] = "sync_setLast"
    /\ frame[1].result.pushed >= 1
    /\ frame[1].result.pulled = 0
    /\ hist.lastSyncAtStart # Null
    /\ \E v \in hist.got : v[2] = drive.seq /\ v[1] \in DOMAIN drive.files

\* C34: with no transient or auth error and syncNow retried, every queued op
\* is removed in the end, also when the mapped file was deleted by another
\* device: the outbox becomes empty.
C34_OutboxDrains == <>(outbox = None)

\* C35: the putNote of a pull does not replace a stored note whose
\* updatedAtMs is not below that of the record it writes: a note saved after
\* the pull read it stays stored unless the remote version is strictly newer
\* than the saved one.
C35_EditSurvivesPull ==
    [][ pc[1] = "pull_putNote" =>
            LET n == frame[1].merged.noteId
            IN  (Get(notes, n) # None /\ TsOf(notes[n]) >= TsOf(frame[1].merged)) =>
                    notes'[n] = notes[n] ]_vars

\* C36: a push takes its snapshot with listOps and keeps it to its end; an
\* op leaves the outbox only in the deleteOp step of the push, being the op
\* of the snapshot the push stands at; the ops that stay are unchanged.  So an
\* op queued while the push runs stays queued, and the snapshot of the next
\* push is the whole outbox.
C36_QueuedDuringPushKept ==
    [][ /\ \A o \in DOMAIN outbox :
              \/ o \in DOMAIN outbox' /\ outbox'[o] = outbox[o]
              \/ /\ pc[1] \in {"push_deleteOp", "push_moot"}
                 /\ o \in SnapshotIds(1)
                 /\ o = frame[1].ops[frame[1].i].opId
        /\ (pc[1] = "push_listOps" /\ pc'[1] = "push_op") =>
              {frame'[1].ops[j].opId : j \in 1..Len(frame'[1].ops)} = DOMAIN outbox
        /\ (pc[1] \in PushPcs \ {"push_listOps"} /\ pc'[1] \in PushPcs) =>
              frame'[1].ops = frame[1].ops ]_vars

\* an op queued by onSave while the push was at work is in the outbox and not
\* in the snapshot, and the push is about to remove the op it stands at
C36_OpBesideSnapshot ==
    /\ pc[1] = "push_deleteOp"
    /\ ui.pc = "idle"
    /\ CurOp(1).opId \in DOMAIN outbox
    /\ \E o \in DOMAIN outbox : o \notin SnapshotIds(1)

\* the note of file f is stored here in a version that is not older
MergedHere(f) ==
    LET r == JSONparse(drive.files[f].body).value
    IN  Get(notes, r.noteId) # None /\ TsOf(notes[r.noteId]) >= TsOf(r)

\* C37: no change is left behind the stored cursor: every note file whose
\* latest change lies before the stored cursor is merged here, so that what
\* is not merged yet is listed by the next incremental pull.
C37_NothingBehindCursor ==
    Cursor # Null =>
        \A f \in DOMAIN drive.files : drive.changeSeq[f] < Cursor => MergedHere(f)
====
